---------------------------- MODULE Spec2Model ----------------------------
(***************************************************************************)
(* A model of MCP_Monitor's decision pipeline: the rule engine, the risk   *)
(* assessor, the historical-case retriever and the orchestrator that       *)
(* sequences them per query, with the record store and the vector index    *)
(* they write to.                                                          *)
(* A second part models the service registry (MCPServiceManager and the    *)
(* mcp_services table), its circuit breaker, the tool router and the hot    *)
(* reload of the rule files.                                               *)
(*                                                                         *)
(* Conventions.                                                            *)
(*  - Strings are TLA+ strings; Python's `in` and re.search with a literal *)
(*    pattern are substring containment (Contains), re.IGNORECASE and      *)
(*    str.lower() go through Lower.  Patterns of the model hold no regex   *)
(*    metacharacters.                                                      *)
(*  - A dict is a sequence of <<key, value>> pairs in insertion order.     *)
(*  - A sub-score s of the assessor is the integer 100*s, a weight w is    *)
(*    10*w, a final score f is 1000*f (exact arithmetic in place of        *)
(*    binary floating point).                                              *)
(*  - A key a dict does not hold is the string Absent, or <<>> where the    *)
(*    value is a number; SQL NULL and Python None are NULL == <<>> and a   *)
(*    value v of a nullable column is <<v>>.                               *)
(*  - Parameter values are strings (str(value) is the value).              *)
(***************************************************************************)
EXTENDS Integers, Sequences, FiniteSets, TLC

Absent == "<absent>"
NULL == <<>>
Some(v) == <<v>>

---------------------------------------------------------------------------
(* Strings *)

LowerChar(c) ==
    CASE c = "A" -> "a" [] c = "B" -> "b" [] c = "C" -> "c" [] c = "D" -> "d"
      [] c = "E" -> "e" [] c = "F" -> "f" [] c = "G" -> "g" [] c = "H" -> "h"
      [] c = "I" -> "i" [] c = "J" -> "j" [] c = "K" -> "k" [] c = "L" -> "l"
      [] c = "M" -> "m" [] c = "N" -> "n" [] c = "O" -> "o" [] c = "P" -> "p"
      [] c = "Q" -> "q" [] c = "R" -> "r" [] c = "S" -> "s" [] c = "T" -> "t"
      [] c = "U" -> "u" [] c = "V" -> "v" [] c = "W" -> "w" [] c = "X" -> "x"
      [] c = "Y" -> "y" [] c = "Z" -> "z" [] OTHER -> c

RECURSIVE LowerFrom(_, _)
LowerFrom(s, i) ==
    IF i > Len(s) THEN "" ELSE LowerChar(SubSeq(s, i, i)) \o LowerFrom(s, i + 1)

\* str.lower()
Lower(s) == LowerFrom(s, 1)

\* p in s, and re.search(p, s) for a literal pattern p
Contains(s, p) ==
    \E i \in 1..(Len(s) - Len(p) + 1) : SubSeq(s, i, i + Len(p) - 1) = p

\* re.search(p, s, flags): flags = re.IGNORECASE unless caseSensitive
ReSearch(p, s, caseSensitive) ==
    IF caseSensitive THEN Contains(s, p) ELSE Contains(Lower(s), Lower(p))

\* f"{k}={v}"
KeyValue(kv) == kv[1] \o "=" \o kv[2]

\* dict lookups on a sequence of pairs
HasKey(d, k) == \E i \in 1..Len(d) : d[i][1] = k
ValueOf(d, k) == d[CHOOSE i \in 1..Len(d) : d[i][1] = k][2]

RECURSIVE SeqMax(_, _)
SeqMax(s, dflt) ==
    IF Len(s) = 0 THEN dflt
    ELSE LET m == SeqMax(Tail(s), Head(s)) IN IF Head(s) >= m THEN Head(s) ELSE m

Min2(a, b) == IF a <= b THEN a ELSE b
Max2(a, b) == IF a >= b THEN a ELSE b

RECURSIVE SelectIdx(_, _, _)
\* the indices i of s, ascending from `from`, with Test(s[i])
SelectIdx(s, Test(_), from) ==
    IF from > Len(s) THEN <<>>
    ELSE (IF Test(s[from]) THEN <<from>> ELSE <<>>) \o SelectIdx(s, Test, from + 1)

---------------------------------------------------------------------------
(* RuleEngine (core/rule_engine.py) *)

\* rule.get("action", "log")
RuleAction(rule) == IF rule.action = Absent THEN "log" ELSE rule.action

\* rule.get('name', rule.get('rule_id'))
RuleDisplayName(rule) == IF rule.name = Absent THEN rule.rule_id ELSE rule.name

\* the match that takes the patterns case-sensitively
MatchRuleCaseSensitive(rule, tool_name, tool_parameters) ==
    LET condition == rule.condition
        tool_name_pattern == condition.tool_name_pattern
        parameter_check == condition.parameter_check
    IN  /\ (tool_name_pattern # Absent /\ tool_name_pattern # "")
              => ReSearch(tool_name_pattern, tool_name, TRUE)
        /\ \A i \in 1..Len(parameter_check) :
              /\ HasKey(tool_parameters, parameter_check[i][1])
              /\ ReSearch(parameter_check[i][2],
                          ValueOf(tool_parameters, parameter_check[i][1]), TRUE)

\* RuleEngine._match_rule
_match_rule(rule, tool_name, tool_parameters) ==
    LET condition == rule.condition
        tool_name_pattern == condition.tool_name_pattern
        parameter_check == condition.parameter_check
    IN  /\ (tool_name_pattern # Absent /\ tool_name_pattern # "")
              => ReSearch(tool_name_pattern, tool_name, FALSE)
        /\ \A i \in 1..Len(parameter_check) :
              /\ HasKey(tool_parameters, parameter_check[i][1])
              /\ ReSearch(parameter_check[i][2],
                          ValueOf(tool_parameters, parameter_check[i][1]), FALSE)

\* the tool-name loop of RuleEngine._check_blacklist: the first entry that hits
BlacklistToolHits(bl, tool_name) ==
    SelectIdx(bl.blocked_tools,
              LAMBDA bt : tool_name = bt.tool_name
                          \/ ReSearch(bt.tool_name, tool_name, TRUE), 1)

\* the parameter loop of RuleEngine._check_blacklist: the entries with a hit
BlacklistParamHits(bl, tool_parameters) ==
    SelectIdx(bl.blocked_parameters,
              LAMBDA bp : \E i \in 1..Len(tool_parameters) :
                            ReSearch(bp.pattern, KeyValue(tool_parameters[i]),
                                     bp.case_sensitive), 1)

\* RuleEngine._check_blacklist.  Both loops stop at their first hit; the
\* parameter loop runs (and stops at its first hit) also after a tool hit.
_check_blacklist(bl, tool_name, tool_parameters) ==
    LET th == BlacklistToolHits(bl, tool_name)
        ph == BlacklistParamHits(bl, tool_parameters)
        tmsg == IF Len(th) > 0
                THEN << "blacklist: " \o bl.blocked_tools[th[1]].reason >>
                ELSE <<>>
        pmsg == IF Len(ph) > 0
                THEN << "parameter: " \o bl.blocked_parameters[ph[1]].reason >>
                ELSE <<>>
    IN  [blocked |-> Len(th) > 0 \/ Len(ph) > 0, messages |-> tmsg \o pmsg]

RECURSIVE MatchLoop(_, _, _, _)
\* the rule loop of RuleEngine.check_tool_call, from rule i on, accumulating
MatchLoop(rs, tool_name, tool_parameters, acc) ==
    IF Len(rs) = 0 THEN acc
    ELSE LET rule == Head(rs)
             hit == _match_rule(rule, tool_name, tool_parameters)
             nxt == IF ~hit THEN acc
                    ELSE [acc EXCEPT
                            !.matched_rules = Append(@, rule),
                            !.force_confirm = @ \/ RuleAction(rule) = "force_confirm",
                            !.blocked = @ \/ RuleAction(rule) = "block",
                            !.messages = Append(@, "rule: " \o RuleDisplayName(rule))]
         IN  MatchLoop(Tail(rs), tool_name, tool_parameters, nxt)

EmptyRuleResult ==
    [blacklist_hit |-> FALSE, matched_rules |-> <<>>, blocked |-> FALSE,
     force_confirm |-> FALSE, messages |-> <<>>]

\* RuleEngine.check_tool_call on the engine state (bl, rs)
check_tool_call_rules_too(bl, rs, tool_name, tool_parameters) ==
    LET blacklist_check == _check_blacklist(bl, tool_name, tool_parameters)
        matched == MatchLoop(rs, tool_name, tool_parameters, EmptyRuleResult)
    IN  IF blacklist_check.blocked
        THEN [matched EXCEPT !.blacklist_hit = TRUE, !.blocked = TRUE,
                             !.messages = blacklist_check.messages \o @]
        ELSE matched

check_tool_call(bl, rs, tool_name, tool_parameters) ==
    LET blacklist_check == _check_blacklist(bl, tool_name, tool_parameters)
    IN  IF blacklist_check.blocked
        THEN [EmptyRuleResult EXCEPT !.blacklist_hit = TRUE, !.blocked = TRUE,
                                     !.messages = blacklist_check.messages]
        ELSE MatchLoop(rs, tool_name, tool_parameters, EmptyRuleResult)

---------------------------------------------------------------------------
(* RiskAssessor (core/risk_assessor.py) *)

ConfirmationThreshold == 600
HighRiskThreshold == 800
WeightBase == 3
WeightParam == 2
WeightHistory == 3
WeightRule == 2
DefaultBaseRisk == 30
ParamIncrement == 30
NoHistoryRisk == 30
DefaultRuleRisk == 50
BlacklistRuleRisk == 100
ScoreOne == 1000

\* RiskAssessor.tool_risk_levels, in the dict's insertion order
tool_risk_levels ==
    << <<"delete", 90>>, <<"remove", 90>>, <<"drop", 95>>, <<"truncate", 95>>,
       <<"format", 100>>, <<"execute", 85>>, <<"exec", 85>>, <<"eval", 85>>,
       <<"payment", 90>>, <<"transfer", 90>>,
       <<"update", 60>>, <<"modify", 60>>, <<"write", 50>>, <<"insert", 50>>,
       <<"send", 50>>, <<"post", 50>>,
       <<"read", 10>>, <<"get", 10>>, <<"list", 10>>, <<"search", 10>>,
       <<"query", 20>> >>

\* RiskAssessor._calculate_base_risk: the first table keyword the name holds
_calculate_base_risk(tool_name) ==
    LET hits == SelectIdx(tool_risk_levels,
                          LAMBDA e : Contains(Lower(tool_name), e[1]), 1)
    IN  IF Len(hits) > 0 THEN tool_risk_levels[hits[1]][2] ELSE DefaultBaseRisk

sensitive_patterns ==
    << "password", "secret", "token", "key", "credential",
       "root", "admin", "system", "sudo",
       "*", "all", "recursive", "force" >>

\* one parameter of the loop of _calculate_parameter_risk: some pattern is in
\* the lowered name or the lowered value (the inner loop breaks at the first)
ParamIsSensitive(kv) ==
    LET key_lower == Lower(kv[1])
        value_str == Lower(kv[2])
    IN  \E i \in 1..Len(sensitive_patterns) :
            \/ Contains(key_lower, sensitive_patterns[i])
            \/ Contains(value_str, sensitive_patterns[i])

\* the parameter risk that counts every parameter as an indicator
ParameterRiskOfAnyParameter(parameters) ==
    IF Len(parameters) = 0 THEN 0
    ELSE Min2(Len(parameters) * ParamIncrement, 100)

\* RiskAssessor._calculate_parameter_risk
_calculate_parameter_risk(parameters) ==
    LET risk_indicators == Len(SelectIdx(parameters, ParamIsSensitive, 1))
    IN  IF Len(parameters) = 0 THEN 0
        ELSE Min2(risk_indicators * ParamIncrement, 100)

\* the historical risk that counts a missing history as no risk
HistoricalRiskZeroWithoutHistory(historical_analysis) ==
    IF ~historical_analysis.has_history THEN 0
    ELSE CASE historical_analysis.risk_indication = "low" -> 20
           [] historical_analysis.risk_indication = "medium" -> 50
           [] historical_analysis.risk_indication = "high" -> 80
           [] OTHER -> 30

\* RiskAssessor._calculate_historical_risk
_calculate_historical_risk(historical_analysis) ==
    IF ~historical_analysis.has_history THEN NoHistoryRisk
    ELSE CASE historical_analysis.risk_indication = "low" -> 20
           [] historical_analysis.risk_indication = "medium" -> 50
           [] historical_analysis.risk_indication = "high" -> 80
           [] OTHER -> 30

\* rule.get("risk_score", 0.5)
RuleRisk(rule) == IF rule.risk_score = <<>> THEN DefaultRuleRisk ELSE rule.risk_score[1]

\* RiskAssessor._calculate_rule_risk
_calculate_rule_risk(rule_result) ==
    IF rule_result.blacklist_hit THEN BlacklistRuleRisk
    ELSE IF Len(rule_result.matched_rules) = 0 THEN 0
    ELSE SeqMax([i \in 1..Len(rule_result.matched_rules) |->
                    RuleRisk(rule_result.matched_rules[i])], 0)

\* the sum with the tool's base risk weighted one half
WeightedSumBaseHalf(base_score, param_score, history_score, rule_score) ==
    base_score * 5 + param_score * WeightParam
    + history_score * WeightHistory + rule_score * WeightRule

\* the weighted sum of assess_tool_risk, before the clamp
WeightedSum(base_score, param_score, history_score, rule_score) ==
    base_score * WeightBase + param_score * WeightParam
    + history_score * WeightHistory + rule_score * WeightRule

\* max(0.0, min(1.0, final_score))
ClampNone(x) == x
Clamp(x) == Max2(0, Min2(ScoreOne, x))

\* the levels that start above their thresholds
RiskLevelAboveThreshold(final_score) ==
    IF final_score > HighRiskThreshold THEN "high"
    ELSE IF final_score > ConfirmationThreshold THEN "medium"
    ELSE "low"

\* the risk level of assess_tool_risk
RiskLevel(final_score) ==
    IF final_score >= HighRiskThreshold THEN "high"
    ELSE IF final_score >= ConfirmationThreshold THEN "medium"
    ELSE "low"

\* RiskAssessor._generate_risk_reasons
_generate_risk_reasons(base_score, param_score, history_score, rule_score, historical_analysis, rule_result) ==
    LET base == IF base_score > 70 THEN << "high-risk operation type" >>
                ELSE IF base_score > 50 THEN << "may modify data" >> ELSE <<>>
        param == IF param_score > 50 THEN << "sensitive or dangerous parameters" >>
                 ELSE <<>>
        hist == IF historical_analysis.has_history
                THEN (IF history_score > 70 THEN << "similar operations were risky" >>
                      ELSE <<>>)
                     \o SubSeq(historical_analysis.common_patterns, 1,
                               Min2(2, Len(historical_analysis.common_patterns)))
                ELSE <<>>
        bl == IF rule_result.blacklist_hit THEN << "blacklisted, forbidden" >> ELSE <<>>
        mr == rule_result.matched_rules
        rl == [i \in 1..Min2(2, Len(mr)) |->
                 "rule triggered: " \o (IF mr[i].name = Absent THEN "Unknown" ELSE mr[i].name)]
        reasons == base \o param \o hist \o bl \o rl
    IN  IF Len(reasons) = 0 THEN << "handle with care" >> ELSE reasons

\* RiskAssessor.assess_tool_risk
assess_tool_risk(tool_name, tool_parameters, historical_analysis, rule_result) ==
    LET base_score == _calculate_base_risk(tool_name)
        param_score == _calculate_parameter_risk(tool_parameters)
        history_score == _calculate_historical_risk(historical_analysis)
        rule_score == _calculate_rule_risk(rule_result)
        final_score == Clamp(WeightedSum(base_score, param_score,
                                         history_score, rule_score))
    IN  [risk_score |-> final_score,
         risk_level |-> RiskLevel(final_score),
         requires_confirmation |-> final_score >= ConfirmationThreshold,
         breakdown |-> [base_risk |-> base_score, parameter_risk |-> param_score,
                        historical_risk |-> history_score, rule_risk |-> rule_score],
         reasons |-> _generate_risk_reasons(base_score, param_score, history_score,
                                            rule_score, historical_analysis, rule_result)]

---------------------------------------------------------------------------
(* RAGRetriever.analyze_historical_feedback (core/rag_retriever.py) *)

NoHistoryAnalysis ==
    [has_history |-> FALSE, risk_indication |-> "unknown",
     common_patterns |-> <<>>, user_preferences |-> <<>>]

\* `history.risk_score and history.risk_score > 0.7`
HighRiskThresholdOfHistory == 700

analyze_historical_feedback(similar_cases) ==
    LET n == Len(similar_cases)
        count(Test(_)) == Len(SelectIdx(similar_cases, Test, 1))
        high_risk_count == count(LAMBDA c : c.history.risk_score > HighRiskThresholdOfHistory)
        confirmed_count == count(LAMBDA c : c.history.user_confirmed = Some(TRUE))
        rejected_count == count(LAMBDA c : c.history.user_confirmed = Some(FALSE))
        failed_count == count(LAMBDA c : c.history.execution_success = Some(FALSE))
        indication == IF 2 * high_risk_count > n THEN "high"
                      ELSE IF rejected_count > confirmed_count THEN "medium"
                      ELSE IF failed_count > 0 THEN "medium"
                      ELSE "low"
        patterns ==
            (IF high_risk_count > 0
             THEN << ToString(high_risk_count) \o "/" \o ToString(n) \o " similar marked high risk" >>
             ELSE <<>>)
            \o (IF rejected_count > 0
                THEN << ToString(rejected_count) \o " similar rejected by the user" >>
                ELSE <<>>)
            \o (IF failed_count > 0
                THEN << ToString(failed_count) \o " similar failed to execute" >>
                ELSE <<>>)
        prefs == IF confirmed_count > rejected_count THEN << "user usually confirms" >>
                 ELSE IF rejected_count > confirmed_count THEN << "user usually rejects" >>
                 ELSE <<>>
    IN  IF n = 0 THEN NoHistoryAnalysis
        ELSE [has_history |-> TRUE, risk_indication |-> indication,
              common_patterns |-> patterns, user_preferences |-> prefs]

---------------------------------------------------------------------------
(* FaissManager (database/faiss_db.py) and the retrieval of RAGRetriever *)

TopK == 5
SimilarityThreshold == 750
Nlist == 100

RECURSIVE InsertByKey(_, _, _)
\* x put into the key-sorted s behind every element whose key is <= x's
InsertByKey(s, Key(_), x) ==
    IF Len(s) = 0 THEN <<x>>
    ELSE IF Key(Head(s)) <= Key(x) THEN <<Head(s)>> \o InsertByKey(Tail(s), Key, x)
    ELSE <<x>> \o s

RECURSIVE SortAsc(_, _, _)
\* a stable sort of the first n elements of s by ascending Key, as list.sort is
SortAsc(s, Key(_), n) ==
    IF n = 0 THEN <<>>
    ELSE InsertByKey(SortAsc(s, Key, n - 1), Key, s[n])

Prefix(s, n) == SubSeq(s, 1, Min2(n, Len(s)))

\* model.get_embedding: a question's vector, one coordinate in tenths
get_embedding(question) ==
    CASE question = "delete the temp file" -> 0
      [] question = "remove the temp file" -> 5
      [] OTHER -> 20

\* the squared L2 distance IndexFlatL2 reports, in hundredths
L2Distance(a, b) == (a - b) * (a - b)

\* similarity = 1 / (1 + distance), in thousandths
Similarity(distance) == (1000 * 100) \div (100 + distance)

\* the index built by FaissManager._create_index with self.nlist = nlist
NewIndexOf(index_type, nlist) ==
    [index_type |-> index_type,
     nlist |-> nlist,
     is_trained |-> index_type # "IVFFlat",
     vectors |-> <<>>,
     id_map |-> <<>>,
     next_vector_id |-> 0]

\* the index of the default nlist
NewIndex(index_type) == NewIndexOf(index_type, Nlist)

\* an add_vector that adds to an index whether it is trained or not
AddVectorUntrained(ix, embedding, database_id) ==
    << [ix EXCEPT !.vectors = Append(@, embedding),
                  !.id_map = Append(@, database_id),
                  !.next_vector_id = @ + 1],
       ix.next_vector_id >>

\* FaissManager.add_vector: <<the index afterwards, the returned vector id>>
add_vector(ix, embedding, database_id) ==
    LET ivf == ix.index_type = "IVFFlat"
        trained == IF ivf /\ ~ix.is_trained /\ Len(ix.vectors) >= ix.nlist
                   THEN TRUE ELSE ix.is_trained
    IN  IF trained \/ ~ivf
        THEN << [ix EXCEPT !.is_trained = trained,
                           !.vectors = Append(@, embedding),
                           !.id_map = Append(@, database_id),
                           !.next_vector_id = @ + 1],
                ix.next_vector_id >>
        ELSE << ix, -1 >>

\* FaissManager.search: the top_k nearest as <<database_id, distance>>,
\* nearest first
faiss_search(ix, query_embedding, top_k) ==
    IF Len(ix.vectors) = 0 THEN <<>>
    ELSE LET all == [i \in 1..Len(ix.vectors) |->
                        << ix.id_map[i], L2Distance(ix.vectors[i], query_embedding) >>]
         IN  Prefix(SortAsc(all, LAMBDA e : e[2], Len(all)), top_k)

\* PostgreSQLManager.get_history_by_ids: the rows whose id is listed, by id
get_history_by_ids(rows, history_ids) ==
    LET hit == SelectIdx(rows, LAMBDA r : \E j \in 1..Len(history_ids) :
                                               history_ids[j] = r.id, 1)
    IN  [i \in 1..Len(hit) |-> rows[hit[i]]]

\* the cases built without the restriction to the user
BuildCasesOfAnyUser(histories, similar_vectors, user_id) ==
    LET DistanceOf(h) ==
            LET at == SelectIdx(similar_vectors, LAMBDA e : e[1] = h.id, 1)
            IN  similar_vectors[at[1]][2]
        all == [i \in 1..Len(histories) |->
                  [history |-> histories[i],
                   similarity_score |-> Similarity(DistanceOf(histories[i])),
                   distance |-> DistanceOf(histories[i])]]
        keep == SelectIdx(all, LAMBDA c : ~(c.similarity_score < SimilarityThreshold), 1)
        kept == [i \in 1..Len(keep) |-> all[keep[i]]]
    IN  Prefix(SortAsc(kept, LAMBDA c : 0 - c.similarity_score, Len(kept)), TopK)

\* steps 4 and 5 of RAGRetriever.retrieve_similar_cases
BuildCases(histories, similar_vectors, user_id) ==
    LET DistanceOf(h) ==
            LET at == SelectIdx(similar_vectors, LAMBDA e : e[1] = h.id, 1)
            IN  similar_vectors[at[1]][2]
        all == [i \in 1..Len(histories) |->
                  [history |-> histories[i],
                   similarity_score |-> Similarity(DistanceOf(histories[i])),
                   distance |-> DistanceOf(histories[i])]]
        keep == SelectIdx(all, LAMBDA c : /\ ~(c.similarity_score < SimilarityThreshold)
                                          /\ ~(user_id # "" /\ c.history.user_id # user_id), 1)
        kept == [i \in 1..Len(keep) |-> all[keep[i]]]
    IN  Prefix(SortAsc(kept, LAMBDA c : 0 - c.similarity_score, Len(kept)), TopK)

---------------------------------------------------------------------------
(* Inputs: the rule files, the users, the questions and the tool-call      *)
(* drafts the model may propose                                            *)

NumQueries == 2
MaxCalls == 2
MaxUpdates == 2

Queries == 1..NumQueries
Users == {"alice", "bob"}

\* the content of rule_engine.blacklist_file
BlacklistFile ==
    [blocked_tools |->
        << [tool_name |-> "format", reason |-> "formatting is forbidden"] >>,
     blocked_parameters |->
        << [pattern |-> "DEVICE=/dev/sd", reason |-> "raw device access",
            case_sensitive |-> FALSE] >>]

\* what _load_blacklist returns when the file cannot be read
EmptyBlacklist == [blocked_tools |-> <<>>, blocked_parameters |-> <<>>]

\* the content of rule_engine.rules_file
RulesFile ==
    << [rule_id |-> "r_force", name |-> "confirm deletes",
        condition |-> [tool_name_pattern |-> "DELETE", parameter_check |-> <<>>],
        action |-> "force_confirm", risk_score |-> <<80>>],
       [rule_id |-> "r_disk", name |-> Absent,
        condition |-> [tool_name_pattern |-> Absent,
                       parameter_check |-> << <<"force", "YES">> >>],
        action |-> "force_confirm", risk_score |-> <<>>],
       [rule_id |-> "r_block", name |-> "no schema changes",
        condition |-> [tool_name_pattern |-> "drop", parameter_check |-> <<>>],
        action |-> "block", risk_score |-> <<100>>],
       [rule_id |-> "r_log", name |-> "money moves",
        condition |-> [tool_name_pattern |-> "transfer", parameter_check |-> <<>>],
        action |-> Absent, risk_score |-> <<500>>],
       [rule_id |-> "r_neg", name |-> "trusted reads",
        condition |-> [tool_name_pattern |-> "read", parameter_check |-> <<>>],
        action |-> "log", risk_score |-> << -300 >>] >>

\* the blacklist file after an edit: formatting is no longer on it
BlacklistFile2 ==
    [blocked_tools |->
        << [tool_name |-> "shutdown", reason |-> "shutting down is forbidden"] >>,
     blocked_parameters |-> <<>>]

\* the rules file after the same edit: formatting is blocked by a rule
RulesFile2 ==
    << [rule_id |-> "r_format", name |-> "no formatting",
        condition |-> [tool_name_pattern |-> "format", parameter_check |-> <<>>],
        action |-> "block", risk_score |-> <<100>>] >>

\* the two files as they are on disk, before and after the edit
ConfigVersions == { << BlacklistFile, RulesFile >>, << BlacklistFile2, RulesFile2 >> }

\* RuleEngine._load_blacklist: the content of the file, the empty blacklist
\* when the file cannot be read (None)
_load_blacklist(file) == IF file = NULL THEN EmptyBlacklist ELSE file[1]

\* RuleEngine._load_rules: the rules of the file, none when it cannot be read
_load_rules(file) == IF file = NULL THEN <<>> ELSE file[1]

\* a reload that keeps what the engine has when a file cannot be read
ReloadKeepsOnFailure(self_blacklist, self_rules, blacklist_file, rules_file) ==
    << IF blacklist_file = NULL THEN self_blacklist ELSE blacklist_file[1],
       IF rules_file = NULL THEN self_rules ELSE rules_file[1] >>

\* a reload that is suspended after its first assignment
ReloadBlacklistOnly(self_blacklist, self_rules, blacklist_file, rules_file) ==
    << _load_blacklist(blacklist_file), self_rules >>

\* RuleEngine.reload_rules: the blacklist and the rules of the engine after it
reload_rules(self_blacklist, self_rules, blacklist_file, rules_file) ==
    << _load_blacklist(blacklist_file), _load_rules(rules_file) >>

\* eval(tool_call["function"]["arguments"]): the arguments JSON evaluated as a
\* Python expression.  JSON's true (like false and null) is no Python name:
\* eval raises NameError.
EvalArguments(arguments) ==
    CASE arguments = "{\"path\": \"/tmp/x\"}" ->
            [ok |-> TRUE, value |-> << <<"path", "/tmp/x">> >>]
      [] arguments = "{\"device\": \"/dev/sda\", \"force\": \"yes\"}" ->
            [ok |-> TRUE, value |-> << <<"device", "/dev/sda">>, <<"force", "yes">> >>]
      [] arguments = "{\"table\": \"users\"}" ->
            [ok |-> TRUE, value |-> << <<"table", "users">> >>]
      [] arguments = "{\"amount\": \"all\"}" ->
            [ok |-> TRUE, value |-> << <<"amount", "all">> >>]
      [] OTHER -> [ok |-> FALSE, value |-> <<>>]

\* the function part of the drafts the model may emit
DraftPool ==
    { [name |-> "read_file", arguments |-> "{\"path\": \"/tmp/x\"}"],
      [name |-> "delete_file", arguments |-> "{\"path\": \"/tmp/x\"}"],
      [name |-> "format_disk",
       arguments |-> "{\"device\": \"/dev/sda\", \"force\": \"yes\"}"],
      [name |-> "drop_table", arguments |-> "{\"table\": \"users\"}"],
      [name |-> "transfer_funds", arguments |-> "{\"amount\": \"all\"}"],
      [name |-> "list_files", arguments |-> "{\"recursive\": true}"] }

\* the drafts of concurrent queries
SmallDraftPool ==
    { d \in DraftPool : d.name \in {"read_file", "format_disk"} }

\* the drafts of the queries that come before the last one and leave it a
\* history: one of low and one of high risk
SeedDraftPool ==
    { d \in DraftPool : d.name \in {"read_file", "transfer_funds"} }

\* the drafts of the queries whose outcome a client confirms and reports
ConfirmDraftPool ==
    { d \in DraftPool : d.name \in {"delete_file", "format_disk"} }

\* the questions asked: the last query's is close to, and not the same as,
\* the earlier ones
QuestionOf(q) ==
    IF q = NumQueries /\ q > 1 THEN "remove the temp file" ELSE "delete the temp file"

\* the model's tool_calls: the drafts in emitted order, each with its own id
ToolCalls(fs) ==
    [i \in 1..Len(fs) |->
        [id |-> "call_" \o ToString(i), name |-> fs[i].name,
         arguments |-> fs[i].arguments]]

DraftLists(pool) == UNION { [1..n -> pool] : n \in 0..MaxCalls }

\* a response with no tool call, or with one
SingleDrafts(pool) == { <<>> } \cup { <<d>> : d \in pool }

---------------------------------------------------------------------------
(* The service registry: the mcp_services table (database/models.py,       *)
(* database/postgresql.py) and MCPServiceManager's decisions               *)
(* (mcp_manager/service_manager.py).  Times are whole seconds.  The        *)
(* columns id, description, registered_at and updated_at are left out:     *)
(* nothing reads them.                                                     *)

\* mcp_services.max_services
MaxServices == 1
\* mcp_services.circuit_breaker.failure_threshold
FailureThreshold == 2
\* mcp_services.circuit_breaker.timeout_duration, in seconds
TimeoutDuration == 1

\* time runs to the second expiry of the breaker's timeout
MaxTime == 2 * TimeoutDuration

\* the operations that can be under way at once
Slots == 1..(MaxServices + 1)

ServicePool ==
    << [service_name |-> "fs", service_url |-> "http://fs",
        tools |-> << [name |-> "read_file"] >>, layer |-> "L1", domain |-> NULL],
       [service_name |-> "mail", service_url |-> "http://mail",
        tools |-> << [name |-> "send_mail"] >>, layer |-> "L2",
        domain |-> Some("email")],
       [service_name |-> "web", service_url |-> "http://web",
        tools |-> << [name |-> "http_get"] >>, layer |-> "L2",
        domain |-> Some("network")] >>

\* a second registration under the first service's name
DuplicateService ==
    [service_name |-> "fs", service_url |-> "http://other",
     tools |-> << [name |-> "write_file"] >>, layer |-> "L2",
     domain |-> Some("file")]

\* the register calls made: one more service than the capacity holds
Registrations ==
    { ServicePool[i] : i \in 1..(MaxServices + 1) } \cup { DuplicateService }

ServiceNames == { r.service_name : r \in Registrations }

\* the latencies reported
Latencies == { 10 }

\* MCPService(...): the row of a new service, with the column defaults
NewService(reg) ==
    [service_name |-> reg.service_name, service_url |-> reg.service_url,
     tools |-> reg.tools, layer |-> reg.layer, domain |-> reg.domain,
     is_active |-> TRUE, health_status |-> "healthy",
     total_calls |-> 0, success_calls |-> 0, failed_calls |-> 0,
     avg_latency_ms |-> 0, circuit_breaker_state |-> "closed",
     circuit_breaker_opened_at |-> NULL, last_health_check |-> NULL]

\* the position of the row named service_name, 0 when there is none
RowOf(rows, service_name) ==
    IF \E i \in 1..Len(rows) : rows[i].service_name = service_name
    THEN CHOOSE i \in 1..Len(rows) : rows[i].service_name = service_name
    ELSE 0

\* PostgreSQLManager.get_mcp_service: the row, or None
get_mcp_service(rows, service_name) ==
    IF RowOf(rows, service_name) = 0 THEN NULL
    ELSE Some(rows[RowOf(rows, service_name)])

RECURSIVE ActiveFrom(_, _, _)
ActiveFrom(rows, layer, i) ==
    IF i > Len(rows) THEN <<>>
    ELSE (IF rows[i].is_active /\ (layer = NULL \/ Some(rows[i].layer) = layer)
          THEN << rows[i] >> ELSE <<>>) \o ActiveFrom(rows, layer, i + 1)

\* PostgreSQLManager.get_active_services(layer)
get_active_services(rows, layer) == ActiveFrom(rows, layer, 1)

\* an INSERT that replaces the row of the same name
RegisterOrReplace(rows, reg) ==
    IF RowOf(rows, reg.service_name) # 0
    THEN << [rows EXCEPT ![RowOf(rows, reg.service_name)] = NewService(reg)], TRUE >>
    ELSE << Append(rows, NewService(reg)), TRUE >>

\* PostgreSQLManager.register_mcp_service: the table after the INSERT and
\* whether it went through (service_name is unique: IntegrityError)
register_mcp_service(rows, reg) ==
    IF RowOf(rows, reg.service_name) # 0 THEN << rows, FALSE >>
    ELSE << Append(rows, NewService(reg)), TRUE >>

\* the UPDATE of update_service_health, which keeps the time of the first
\* opening
UpdateServiceHealthKeepOpenedAt(rows, now, service_name, health_status, state) ==
    [i \in 1..Len(rows) |->
        IF rows[i].service_name # service_name THEN rows[i]
        ELSE [rows[i] EXCEPT
                !.health_status = health_status,
                !.last_health_check = Some(now),
                !.circuit_breaker_state = IF state = NULL THEN @ ELSE state[1],
                !.circuit_breaker_opened_at =
                    IF state = Some("open") /\ @ = NULL THEN Some(now) ELSE @]]

\* PostgreSQLManager.update_service_health(name, health_status, state)
update_service_health(rows, now, service_name, health_status, state) ==
    [i \in 1..Len(rows) |->
        IF rows[i].service_name # service_name THEN rows[i]
        ELSE [rows[i] EXCEPT
                !.health_status = health_status,
                !.last_health_check = Some(now),
                !.circuit_breaker_state = IF state = NULL THEN @ ELSE state[1],
                !.circuit_breaker_opened_at =
                    IF state = Some("open") THEN Some(now) ELSE @]]

\* the metrics whose failure count starts again at every success
MetricsResetOnSuccess(service, success, latency_ms) ==
    [total_calls |-> service.total_calls + 1,
     success_calls |-> service.success_calls + (IF success THEN 1 ELSE 0),
     failed_calls |-> IF success THEN 0 ELSE service.failed_calls + 1,
     avg_latency_ms |->
        (service.avg_latency_ms * service.total_calls + latency_ms)
            \div (service.total_calls + 1)]

\* update_service_metrics, from the row it read: the values of its UPDATE
MetricsValues(service, success, latency_ms) ==
    [total_calls |-> service.total_calls + 1,
     success_calls |-> service.success_calls + (IF success THEN 1 ELSE 0),
     failed_calls |-> service.failed_calls + (IF success THEN 0 ELSE 1),
     avg_latency_ms |->
        (service.avg_latency_ms * service.total_calls + latency_ms)
            \div (service.total_calls + 1)]

\* update_service_metrics: its UPDATE
ApplyMetrics(rows, service_name, values) ==
    [i \in 1..Len(rows) |->
        IF rows[i].service_name # service_name THEN rows[i]
        ELSE [rows[i] EXCEPT
                !.total_calls = values.total_calls,
                !.success_calls = values.success_calls,
                !.failed_calls = values.failed_calls,
                !.avg_latency_ms = values.avg_latency_ms]]

\* the breaker that opens only above the threshold
BreakerAboveThreshold(service, success, now) ==
    CASE service.circuit_breaker_state = "closed" ->
            IF ~success /\ service.failed_calls > FailureThreshold
            THEN Some([health_status |-> service.health_status, state |-> "open"])
            ELSE NULL
      [] service.circuit_breaker_state = "open" ->
            IF /\ service.circuit_breaker_opened_at # NULL
               /\ now - service.circuit_breaker_opened_at[1] >= TimeoutDuration
            THEN Some([health_status |-> service.health_status,
                       state |-> "half_open"])
            ELSE NULL
      [] service.circuit_breaker_state = "half_open" ->
            IF success THEN Some([health_status |-> "healthy", state |-> "closed"])
            ELSE Some([health_status |-> "degraded", state |-> "open"])
      [] OTHER -> NULL

\* MCPServiceManager.update_circuit_breaker, from the row it read at time
\* now: the update_service_health it goes on to make, or None
update_circuit_breaker(service, success, now) ==
    CASE service.circuit_breaker_state = "closed" ->
            IF ~success /\ service.failed_calls >= FailureThreshold
            THEN Some([health_status |-> service.health_status, state |-> "open"])
            ELSE NULL
      [] service.circuit_breaker_state = "open" ->
            IF /\ service.circuit_breaker_opened_at # NULL
               /\ now - service.circuit_breaker_opened_at[1] >= TimeoutDuration
            THEN Some([health_status |-> service.health_status,
                       state |-> "half_open"])
            ELSE NULL
      [] service.circuit_breaker_state = "half_open" ->
            IF success THEN Some([health_status |-> "healthy", state |-> "closed"])
            ELSE Some([health_status |-> "degraded", state |-> "open"])
      [] OTHER -> NULL

\* an idle slot
IdleTask == [op |-> "none", pc |-> "idle", arg |-> NULL, seen |-> NULL, result |-> NULL]

\* no report written yet: the reports, the successes and the failures
\* counted, and the failures since the last success
NoReports == [total |-> 0, success |-> 0, failed |-> 0, streak |-> 0]

---------------------------------------------------------------------------
(* State *)

VARIABLES
    blacklist,      \* RuleEngine.blacklist
    rules,          \* RuleEngine.rules
    index,          \* FaissManager: the index, id_map and next_vector_id
    db,             \* the rows of tool_call_history, by id
    clock,          \* datetime.utcnow(), as a count of the UPDATEs so far
    pc,             \* per query: where its task stands
    req,            \* per query: user_id, user_question, streaming or not
    tool_calls,     \* per query: model_response.tool_calls
    idx,            \* per query: the draft being evaluated (1-based)
    loc,            \* per query: the locals of the evaluation under way
    results,        \* per query: the results list
    response,       \* per query: what the query returned (or raised)
    events,         \* per query: the events the streaming variant yielded
    oplog,          \* per query: the component calls made, in order
    lastConfirm,    \* the last confirm_tool_call: its arguments and result
    lastExec,       \* the last record_execution_result: its arguments
    services,       \* the rows of mcp_services, in insertion order
    utcnow,         \* datetime.utcnow() of the service registry, in seconds
    task,           \* per slot: the registry operation under way, or its result
    started,        \* how many registry operations of each kind were started
    applied         \* per service: the outcome reports whose metrics were written

regvars == << services, utcnow, task, started, applied >>

pipevars == << blacklist, rules, index, db, clock, pc, req, tool_calls, idx, loc,
               results, response, events, oplog, lastConfirm, lastExec >>

vars == << pipevars, regvars >>

qvars == << pc, idx, loc, results, response, events, oplog >>

\* the state after construction, the registry's rows apart
InitOutsideStore ==
    /\ \E loaded \in BOOLEAN :
          /\ blacklist = IF loaded THEN BlacklistFile ELSE EmptyBlacklist
          /\ rules = IF loaded THEN RulesFile ELSE <<>>
    /\ clock = 0
    /\ pc = [q \in Queries |-> "idle"]
    /\ req = [q \in Queries |-> NULL]
    /\ tool_calls = [q \in Queries |-> NULL]
    /\ idx = [q \in Queries |-> 0]
    /\ loc = [q \in Queries |-> NULL]
    /\ results = [q \in Queries |-> <<>>]
    /\ response = [q \in Queries |-> NULL]
    /\ events = [q \in Queries |-> <<>>]
    /\ oplog = [q \in Queries |-> <<>>]
    /\ lastConfirm = [request_id |-> 0, user_id |-> "", confirmed |-> FALSE,
                      success |-> FALSE, action |-> Absent, at |-> -1]
    /\ lastExec = [request_id |-> 0, success |-> FALSE, result |-> NULL,
                   found |-> FALSE, at |-> -1]
    /\ utcnow = 0
    /\ task = [t \in Slots |-> IdleTask]
    /\ started = [register |-> 0, report |-> 0, probe |-> 0, route |-> 0]
    /\ applied = [n \in ServiceNames |-> NoReports]

\* no call stored yet
InitExceptServices == InitOutsideStore /\ index = NewIndex("Flat") /\ db = <<>>

Init == InitExceptServices /\ services = <<>>

---------------------------------------------------------------------------
(* MCPOrchestrator (core/orchestrator.py): one query.  A task runs without  *)
(* interruption from one await to the next; each action below is one such   *)
(* stretch, and an Outcome is where the stretch leaves the query.           *)

Outcome(npc, nidx, nloc, rs, resp, evs, ops) ==
    [pc |-> npc, idx |-> nidx, loc |-> nloc, results |-> rs, response |-> resp,
     evs |-> evs, ops |-> ops]

Op(name, i, phase) == [op |-> name, draft |-> i, phase |-> phase]
Event(type, i) == [type |-> type, tool_index |-> i]

\* the except clauses: process_query logs and re-raises, process_query_stream
\* yields an 'error' event and ends
Raise(r, i, rs, error, evs, ops) ==
    IF r.stream
    THEN Outcome("done", i, NULL, rs, [kind |-> "error", error |-> error],
                 evs \o << [type |-> "error", tool_index |-> 0, error |-> error] >>, ops)
    ELSE Outcome("failed", i, NULL, rs, [kind |-> "raised", error |-> error], evs, ops)

\* any(r["requires_confirmation"] for r in results)
AnyTrue(flags) == \E i \in 1..Len(flags) : flags[i]
AllTrue(flags) == \A i \in 1..Len(flags) : flags[i]
AnyRequiresConfirmation(rs) ==
    AnyTrue([i \in 1..Len(rs) |-> rs[i].requires_confirmation])

\* max(r["risk_score"] for r in results)
LastRiskScore(rs) == rs[Len(rs)].risk_score
MaxRiskScore(rs) == SeqMax([i \in 1..Len(rs) |-> rs[i].risk_score], 0)

\* the return of process_query and the 'complete' event of the stream
Finish(r, q, rs, evs, ops) ==
    LET body == [kind |-> "result", request_id |-> q,
                 requires_confirmation |-> AnyRequiresConfirmation(rs),
                 risk_score |-> MaxRiskScore(rs),
                 tool_calls |-> rs]
    IN  Outcome("done", Len(rs), NULL, rs, body,
                evs \o (IF r.stream
                        THEN << [type |-> "complete", tool_index |-> 0, body |-> body] >>
                        ELSE <<>>),
                ops)

\* the entry of _process_tool_call for draft i, up to its first await
EnterFull(r, q, calls, i, rs, evs, ops) ==
    LET parsed == EvalArguments(calls[i].arguments)
    IN  IF ~parsed.ok
        THEN Raise(r, i, rs, "NameError", evs, ops \o << Op("eval", i, "full") >>)
        ELSE Outcome("retrieve_embed", i,
                     [phase |-> "full", tool_parameters |-> parsed.value],
                     rs, NULL, evs, ops \o << Op("eval", i, "full") >>)

\* the loop body of process_query_stream for draft i and the entry of
\* _process_tool_call_stream, up to its first await
EnterStream(r, q, calls, i, rs, evs, ops) ==
    LET parsed == EvalArguments(calls[i].arguments)
    IN  Outcome("retrieve_embed", i,
                [phase |-> "stream",
                 tool_parameters |-> IF parsed.ok THEN parsed.value ELSE <<>>],
                rs, NULL,
                evs \o << Event("tool_analysis", i), Event("rag_retrieval", i) >>,
                ops \o << Op("eval", i, "stream") >>)

EnterCall(r, q, calls, i, rs, evs, ops) ==
    IF r.stream THEN EnterStream(r, q, calls, i, rs, evs, ops)
    ELSE EnterFull(r, q, calls, i, rs, evs, ops)

\* results.append(result) and the next turn of the loop over the drafts
NextCallReversed(r, q, calls, i, result, rs, evs, ops) ==
    IF i < Len(calls) THEN EnterCall(r, q, calls, i + 1, <<result>> \o rs, evs, ops)
    ELSE Finish(r, q, <<result>> \o rs, evs, ops)

NextCall(r, q, calls, i, result, rs, evs, ops) ==
    IF i < Len(calls) THEN EnterCall(r, q, calls, i + 1, Append(rs, result), evs, ops)
    ELSE Finish(r, q, Append(rs, result), evs, ops)

\* the dict _process_tool_call returns for a blocked call
BlockedResultScored(tc, tool_parameters, rule_result, historical_analysis) ==
    LET risk == assess_tool_risk(tc.name, tool_parameters, historical_analysis,
                                 rule_result)
    IN  [tool_call_id |-> tc.id, tool_name |-> tc.name,
         tool_parameters |-> tool_parameters,
         requires_confirmation |-> TRUE, blocked |-> TRUE,
         risk_score |-> risk.risk_score, messages |-> rule_result.messages]

BlockedResult(tc, tool_parameters, rule_result, historical_analysis) ==
    [tool_call_id |-> tc.id, tool_name |-> tc.name,
     tool_parameters |-> tool_parameters,
     requires_confirmation |-> FALSE, blocked |-> TRUE,
     risk_score |-> ScoreOne, messages |-> rule_result.messages]

\* step 6 of _process_tool_call
DecideByScoreOnly(risk_result, rule_result) == risk_result.requires_confirmation
Decide(risk_result, rule_result) ==
    risk_result.requires_confirmation \/ rule_result.force_confirm

\* the dict _process_tool_call returns for a call that is not blocked
FullResult(tc, tool_parameters, risk_result, requires_confirmation, historical_analysis, similar_cases) ==
    [tool_call_id |-> tc.id, tool_name |-> tc.name,
     tool_parameters |-> tool_parameters,
     requires_confirmation |-> requires_confirmation, blocked |-> FALSE,
     risk_score |-> risk_result.risk_score, risk_level |-> risk_result.risk_level,
     risk_reasons |-> risk_result.reasons,
     historical_insights |-> historical_analysis.common_patterns,
     similar_case_count |-> Len(similar_cases)]

\* the keyword arguments of db.create_tool_call_history
NewRow(r, q, tc, tool_parameters, risk_result, requires_confirmation, rule_result, similar_cases) ==
    [request_id |-> q, user_id |-> r.user_id, user_question |-> r.question,
     tool_name |-> tc.name, tool_parameters |-> tool_parameters,
     risk_score |-> risk_result.risk_score,
     requires_confirmation |-> requires_confirmation,
     matched_rules |-> [i \in 1..Len(rule_result.matched_rules) |->
                           rule_result.matched_rules[i].rule_id],
     blacklist_hit |-> rule_result.blacklist_hit,
     similar_history_ids |-> [i \in 1..Len(similar_cases) |->
                                 similar_cases[i].history.id]]

\* what an evaluation saw and decided, kept with the "rule_check" op
Seen(name, i, phase, rule_result, scored, risk_score, requires_confirmation) ==
    [op |-> name, draft |-> i, phase |-> phase,
     blacklist_hit |-> rule_result.blacklist_hit,
     blocked |-> rule_result.blocked,
     force_confirm |-> rule_result.force_confirm,
     messages |-> rule_result.messages,
     matched |-> [k \in 1..Len(rule_result.matched_rules) |->
                     rule_result.matched_rules[k].rule_id],
     scored |-> scored, risk_score |-> risk_score,
     requires_confirmation |-> requires_confirmation]

\* steps 7 and 8 of _process_tool_call: the row and the result made ready, up
\* to `await self.db.create_tool_call_history`
FullDecided(r, q, calls, i, tool_parameters, similar_cases, historical_analysis, rule_result, risk_result, requires_confirmation, rs, evs, ops) ==
    Outcome("persist", i,
            [phase |-> "full", tool_parameters |-> tool_parameters,
             row |-> NewRow(r, q, calls[i], tool_parameters, risk_result,
                            requires_confirmation, rule_result, similar_cases),
             result |-> FullResult(calls[i], tool_parameters, risk_result,
                                   requires_confirmation, historical_analysis,
                                   similar_cases)],
            rs, NULL, evs,
            ops \o << Op("retrieve", i, "full"),
                      Seen("rule_check", i, "full", rule_result, TRUE,
                           risk_result.risk_score, requires_confirmation),
                      Op("score", i, "full") >>)

\* step 6 of _process_tool_call: the decision on the assessor's result
FullScored(r, q, calls, i, tool_parameters, similar_cases, historical_analysis, rule_result, risk_result, rs, evs, ops) ==
    FullDecided(r, q, calls, i, tool_parameters, similar_cases, historical_analysis,
                rule_result, risk_result, Decide(risk_result, rule_result),
                rs, evs, ops)

\* the blocked return of _process_tool_call and the loop's next turn
FullBlocked(r, q, calls, i, rule_result, blockedRes, rs, evs, ops) ==
    NextCall(r, q, calls, i, blockedRes, rs, evs,
             ops \o << Op("retrieve", i, "full"),
                       Seen("rule_check", i, "full", rule_result, FALSE,
                            blockedRes.risk_score,
                            blockedRes.requires_confirmation) >>)

\* steps 4 and 5 without the blocked return: every call is assessed and stored
FullCheckedWithoutReturn(r, q, calls, i, tool_parameters, similar_cases, historical_analysis, rule_result, rs, evs, ops) ==
    FullScored(r, q, calls, i, tool_parameters, similar_cases,
               historical_analysis, rule_result,
               assess_tool_risk(calls[i].name, tool_parameters,
                                historical_analysis, rule_result),
               rs, evs, ops)

\* steps 4 and 5 of _process_tool_call: the blocked return, or the assessment
FullChecked(r, q, calls, i, tool_parameters, similar_cases, historical_analysis, rule_result, rs, evs, ops) ==
    IF rule_result.blocked
    THEN FullBlocked(r, q, calls, i, rule_result,
                     BlockedResult(calls[i], tool_parameters, rule_result,
                                   historical_analysis),
                     rs, evs, ops)
    ELSE FullScored(r, q, calls, i, tool_parameters, similar_cases,
                    historical_analysis, rule_result,
                    assess_tool_risk(calls[i].name, tool_parameters,
                                     historical_analysis, rule_result),
                    rs, evs, ops)

\* step 3 of _process_tool_call: the analysis of the cases retrieved
FullAnalysed(r, q, calls, i, tool_parameters, similar_cases, historical_analysis, bl, rls, rs, evs, ops) ==
    FullChecked(r, q, calls, i, tool_parameters, similar_cases, historical_analysis,
                check_tool_call(bl, rls, calls[i].name, tool_parameters),
                rs, evs, ops)

\* _process_tool_call from the end of the retrieval: steps 3 (analysis) to 7,
\* up to `await self.db.create_tool_call_history`, or the blocked return
EvaluateFull(r, q, calls, i, tool_parameters, similar_cases, bl, rls, rs, evs, ops) ==
    FullAnalysed(r, q, calls, i, tool_parameters, similar_cases,
                 analyze_historical_feedback(similar_cases), bl, rls, rs, evs, ops)

\* what _process_tool_call_stream yields after a rule_blocked event: nothing
\* (it returns)
AfterBlockedContinue(i, risk_events) == risk_events
AfterBlocked(i, risk_events) == <<>>

\* the events of _process_tool_call_stream up to the rule check
StreamHead(i, similar_cases, historical_analysis) ==
    << [type |-> "rag_complete", tool_index |-> i,
        similar_cases_count |-> Len(similar_cases),
        has_history |-> historical_analysis.has_history],
       Event("rule_check", i) >>

\* the events of _process_tool_call_stream from the risk assessment on
StreamRiskEvents(i, risk_result, requires_confirmation) ==
    << Event("risk_assessment", i),
       [type |-> "risk_complete", tool_index |-> i,
        risk_score |-> risk_result.risk_score,
        risk_level |-> risk_result.risk_level,
        requires_confirmation |-> requires_confirmation] >>
    \o (IF requires_confirmation
        THEN << Event("confirmation_required", i) >> ELSE <<>>)

\* the rule_blocked or rule_complete event and what follows it
StreamYielded(i, rule_result, riskEvents) ==
    IF rule_result.blocked
    THEN << [type |-> "rule_blocked", tool_index |-> i,
             messages |-> rule_result.messages] >>
         \o AfterBlocked(i, riskEvents)
    ELSE << [type |-> "rule_complete", tool_index |-> i,
             matched_rules |-> Len(rule_result.matched_rules)] >>
         \o riskEvents

\* the component calls of _process_tool_call_stream
StreamCalled(i, rule_result, risk_result, requires_confirmation) ==
    << Op("retrieve", i, "stream") >>
    \o (IF rule_result.blocked
        THEN << Seen("rule_check", i, "stream", rule_result, FALSE, ScoreOne, FALSE) >>
        ELSE << Seen("rule_check", i, "stream", rule_result, TRUE,
                     risk_result.risk_score, requires_confirmation),
                Op("score", i, "stream") >>)

StreamDecided(r, q, calls, i, similar_cases, historical_analysis, rule_result, risk_result, requires_confirmation, rs, evs, ops) ==
    EnterFull(r, q, calls, i, rs,
              evs \o StreamHead(i, similar_cases, historical_analysis)
                  \o StreamYielded(i, rule_result,
                                   StreamRiskEvents(i, risk_result,
                                                    requires_confirmation)),
              ops \o StreamCalled(i, rule_result, risk_result, requires_confirmation))

StreamScored(r, q, calls, i, similar_cases, historical_analysis, rule_result, risk_result, rs, evs, ops) ==
    StreamDecided(r, q, calls, i, similar_cases, historical_analysis, rule_result,
                  risk_result, Decide(risk_result, rule_result), rs, evs, ops)

StreamChecked(r, q, calls, i, tool_parameters, similar_cases, historical_analysis, rule_result, rs, evs, ops) ==
    StreamScored(r, q, calls, i, similar_cases, historical_analysis, rule_result,
                 assess_tool_risk(calls[i].name, tool_parameters,
                                  historical_analysis, rule_result),
                 rs, evs, ops)

StreamAnalysed(r, q, calls, i, tool_parameters, similar_cases, historical_analysis, bl, rls, rs, evs, ops) ==
    StreamChecked(r, q, calls, i, tool_parameters, similar_cases, historical_analysis,
                  check_tool_call(bl, rls, calls[i].name, tool_parameters),
                  rs, evs, ops)

\* _process_tool_call_stream from the end of the retrieval to its end, then
\* the entry of the _process_tool_call that process_query_stream calls next
EvaluateStream(r, q, calls, i, tool_parameters, similar_cases, bl, rls, rs, evs, ops) ==
    StreamAnalysed(r, q, calls, i, tool_parameters, similar_cases,
                   analyze_historical_feedback(similar_cases), bl, rls, rs, evs, ops)

Evaluate(r, q, calls, i, l, similar_cases, bl, rls, rs) ==
    IF l.phase = "stream"
    THEN EvaluateStream(r, q, calls, i, l.tool_parameters, similar_cases, bl, rls,
                        rs, <<>>, <<>>)
    ELSE EvaluateFull(r, q, calls, i, l.tool_parameters, similar_cases, bl, rls,
                      rs, <<>>, <<>>)

\* the query q moves to the outcome o
Apply(q, o) ==
    /\ pc' = [pc EXCEPT ![q] = o.pc]
    /\ idx' = [idx EXCEPT ![q] = o.idx]
    /\ loc' = [loc EXCEPT ![q] = o.loc]
    /\ results' = [results EXCEPT ![q] = o.results]
    /\ response' = [response EXCEPT ![q] = o.response]
    /\ events' = [events EXCEPT ![q] = @ \o o.evs]
    /\ oplog' = [oplog EXCEPT ![q] = @ \o o.ops]

---------------------------------------------------------------------------
(* Actions *)

Ended(q) == pc[q] \in {"done", "failed"}

\* process_query / process_query_stream up to `await route_tools`
Start(q, user_id, question, stream) ==
    /\ pc[q] = "idle"
    /\ req' = [req EXCEPT ![q] = [user_id |-> user_id, question |-> question,
                                  stream |-> stream]]
    /\ pc' = [pc EXCEPT ![q] = "routing"]
    /\ events' = [events EXCEPT ![q] =
                    IF stream THEN << [type |-> "progress", tool_index |-> 0,
                                       step |-> "tool_routing"] >>
                    ELSE <<>>]
    /\ UNCHANGED << regvars, blacklist, rules, index, db, clock, tool_calls, idx, loc,
                    results, response, oplog, lastConfirm, lastExec >>

\* the queries come in the order of their ids
InOrder(q) == \A o \in Queries : o < q => pc[o] # "idle"

\* a query sent once the one before has ended; the first ones are alice's,
\* through the non-streaming endpoint
StartQuery(q) ==
    /\ InOrder(q)
    /\ \A o \in Queries : o < q => Ended(o)
    /\ \E user_id \in (IF q = NumQueries THEN Users ELSE {"alice"}),
          stream \in (IF q = NumQueries THEN BOOLEAN ELSE {FALSE}) :
          Start(q, user_id, QuestionOf(q), stream)

\* a query sent at any time
StartConcurrentQuery(q) ==
    /\ InOrder(q)
    /\ \E stream \in BOOLEAN : Start(q, "alice", QuestionOf(1), stream)

\* a query of the non-streaming endpoint, sent once the one before has ended
StartPlainQuery(q) ==
    /\ InOrder(q)
    /\ \A o \in Queries : o < q => Ended(o)
    /\ Start(q, "alice", QuestionOf(q), FALSE)

\* route_tools returned: up to `await self.model.generate`
Route(q) ==
    /\ pc[q] = "routing"
    /\ pc' = [pc EXCEPT ![q] = "generating"]
    /\ events' = [events EXCEPT ![q] =
                    IF req[q].stream
                    THEN @ \o << Event("routing_complete", 0),
                                 [type |-> "progress", tool_index |-> 0,
                                  step |-> "model_generation"] >>
                    ELSE @]
    /\ UNCHANGED << regvars, blacklist, rules, index, db, clock, req, tool_calls, idx, loc,
                    results, response, oplog, lastConfirm, lastExec >>

\* the answer of process_query, and the 'complete' event of the stream, when
\* the model proposed no tool call
PlainAnswerToConfirm(q) ==
    [kind |-> "plain", request_id |-> q, requires_confirmation |-> TRUE,
     tool_calls |-> NULL]

PlainAnswer(q) ==
    [kind |-> "plain", request_id |-> q, requires_confirmation |-> FALSE,
     tool_calls |-> NULL]

\* the model answered with the drafts fs (none: a plain answer): up to the
\* first await of the first draft's evaluation
Generated(q, fs) ==
    LET calls == ToolCalls(fs)
        r == req[q]
        pre == IF r.stream THEN << Event("model_complete", 0) >> ELSE <<>>
        plain == PlainAnswer(q)
    IN  /\ pc[q] = "generating"
        /\ tool_calls' = [tool_calls EXCEPT ![q] = calls]
        /\ IF Len(calls) = 0
           THEN Apply(q, Outcome("done", 0, NULL, <<>>, plain,
                                 pre \o (IF r.stream
                                         THEN << [type |-> "complete", tool_index |-> 0,
                                                  body |-> plain] >>
                                         ELSE <<>>),
                                 <<>>))
           ELSE Apply(q, EnterCall(r, q, calls, 1, <<>>,
                                   pre \o (IF r.stream
                                           THEN << [type |-> "progress", tool_index |-> 0,
                                                    step |-> "tool_processing"] >>
                                           ELSE <<>>),
                                   <<>>))
        /\ UNCHANGED << regvars, blacklist, rules, index, db, clock, req, lastConfirm,
                        lastExec >>

Generate(q) ==
    \E fs \in (IF q = NumQueries THEN DraftLists(DraftPool)
                ELSE SingleDrafts(SeedDraftPool)) :
        Generated(q, fs)

GenerateFew(q) == \E fs \in DraftLists(SmallDraftPool) : Generated(q, fs)

GenerateToConfirm(q) == \E d \in ConfirmDraftPool : Generated(q, <<d>>)

\* retrieve_similar_cases, the embedding returned: the index search, and with
\* nothing found the rest of the evaluation up to its next await
RetrieveSearch(q) ==
    LET r == req[q]
        similar_vectors == faiss_search(index, get_embedding(r.question), TopK * 2)
    IN  /\ pc[q] = "retrieve_embed"
        /\ IF Len(similar_vectors) = 0
           THEN Apply(q, Evaluate(r, q, tool_calls[q], idx[q], loc[q], <<>>,
                                  blacklist, rules, results[q]))
           ELSE Apply(q, Outcome("retrieve_fetch", idx[q],
                                 [phase |-> loc[q].phase,
                                  tool_parameters |-> loc[q].tool_parameters,
                                  similar_vectors |-> similar_vectors],
                                 results[q], NULL, <<>>, <<>>))
        /\ UNCHANGED << regvars, blacklist, rules, index, db, clock, req, tool_calls,
                        lastConfirm, lastExec >>

\* retrieve_similar_cases, the rows returned: the cases, and the rest of the
\* evaluation up to its next await
RetrieveFetch(q) ==
    LET r == req[q]
        similar_vectors == loc[q].similar_vectors
        database_ids == [i \in 1..Len(similar_vectors) |-> similar_vectors[i][1]]
        histories == get_history_by_ids(db, database_ids)
        similar_cases == BuildCases(histories, similar_vectors, r.user_id)
    IN  /\ pc[q] = "retrieve_fetch"
        /\ Apply(q, Evaluate(r, q, tool_calls[q], idx[q], loc[q], similar_cases,
                             blacklist, rules, results[q]))
        /\ UNCHANGED << regvars, blacklist, rules, index, db, clock, req, tool_calls,
                        lastConfirm, lastExec >>

\* request_id = Column(String(64), unique=True, ...): the INSERT of a second
\* row with a request_id fails
UniqueRequestId(rows, request_id) ==
    \A i \in 1..Len(rows) : rows[i].request_id # request_id

\* PostgreSQLManager.create_tool_call_history: the stored row
InsertedRow(rows, now, row) ==
    [id |-> Len(rows) + 1,
     request_id |-> row.request_id, user_id |-> row.user_id,
     user_question |-> row.user_question, tool_name |-> row.tool_name,
     tool_parameters |-> row.tool_parameters, risk_score |-> row.risk_score,
     requires_confirmation |-> row.requires_confirmation,
     matched_rules |-> row.matched_rules, blacklist_hit |-> row.blacklist_hit,
     similar_history_ids |-> row.similar_history_ids,
     user_confirmed |-> NULL, user_feedback |-> NULL,
     execution_success |-> NULL, execution_result |-> NULL,
     created_at |-> now, confirmed_at |-> NULL, executed_at |-> NULL]

\* step 8 of _process_tool_call: the INSERT, then up to the await of the
\* embedding in store_question_embedding; an IntegrityError leaves
\* _process_tool_call and the loop over the drafts
Persist(q) ==
    LET r == req[q]
        l == loc[q]
    IN  /\ pc[q] = "persist"
        /\ IF UniqueRequestId(db, l.row.request_id)
           THEN /\ db' = Append(db, InsertedRow(db, clock, l.row))
                /\ UNCHANGED clock
                /\ Apply(q, Outcome("store_embed", idx[q],
                                    [phase |-> "full", result |-> l.result,
                                     history_id |-> Len(db) + 1],
                                    results[q], NULL, <<>>,
                                    << Op("persist", idx[q], "full") >>))
           ELSE /\ UNCHANGED << db, clock >>
                /\ Apply(q, Raise(r, idx[q], results[q], "IntegrityError", <<>>,
                                  << Op("persist_failed", idx[q], "full") >>))
        /\ UNCHANGED << regvars, blacklist, rules, index, req, tool_calls, lastConfirm,
                        lastExec >>

\* step 9 of _process_tool_call, the embedding returned: add_vector, the
\* return, and the loop's next turn up to its first await
StoreEmbedding(q) ==
    LET r == req[q]
        l == loc[q]
        added == add_vector(index, get_embedding(r.question), l.history_id)
    IN  /\ pc[q] = "store_embed"
        /\ index' = added[1]
        /\ Apply(q, NextCall(r, q, tool_calls[q], idx[q], l.result, results[q], <<>>,
                             << [op |-> "embed", draft |-> idx[q], phase |-> "full",
                                 database_id |-> l.history_id,
                                 vector_id |-> added[2]] >>))
        /\ UNCHANGED << regvars, blacklist, rules, db, clock, req, tool_calls, lastConfirm,
                        lastExec >>

\* PostgreSQLManager.update_tool_call_confirmation: <<rows, rowcount > 0>>
UpdateConfirmationAlways(rows, now, request_id, user_confirmed, user_feedback) ==
    << [i \in 1..Len(rows) |->
           [rows[i] EXCEPT !.user_confirmed = Some(user_confirmed),
                           !.user_feedback = user_feedback,
                           !.confirmed_at = Some(now)]],
       TRUE >>

update_tool_call_confirmation(rows, now, request_id, user_confirmed, user_feedback) ==
    << [i \in 1..Len(rows) |->
           IF rows[i].request_id = request_id
           THEN [rows[i] EXCEPT !.user_confirmed = Some(user_confirmed),
                                !.user_feedback = user_feedback,
                                !.confirmed_at = Some(now)]
           ELSE rows[i]],
       \E i \in 1..Len(rows) : rows[i].request_id = request_id >>

\* PostgreSQLManager.update_tool_call_execution: <<rows, rowcount > 0>>
UpdateExecutionIfConfirmed(rows, now, request_id, execution_success, execution_result) ==
    << [i \in 1..Len(rows) |->
           IF rows[i].request_id = request_id /\ rows[i].user_confirmed = Some(TRUE)
           THEN [rows[i] EXCEPT !.execution_success = Some(execution_success),
                                !.execution_result = execution_result,
                                !.executed_at = Some(now)]
           ELSE rows[i]],
       \E i \in 1..Len(rows) : rows[i].request_id = request_id >>

update_tool_call_execution(rows, now, request_id, execution_success, execution_result) ==
    << [i \in 1..Len(rows) |->
           IF rows[i].request_id = request_id
           THEN [rows[i] EXCEPT !.execution_success = Some(execution_success),
                                !.execution_result = execution_result,
                                !.executed_at = Some(now)]
           ELSE rows[i]],
       \E i \in 1..Len(rows) : rows[i].request_id = request_id >>

\* the request ids a client may send: those of the queries, and one never issued
RequestIds == Queries \cup {0}

\* a confirm_tool_call that only the user who issued the query may use
ConfirmByIssuerOnly(rows, now, request_id, user_id, confirmed, feedback) ==
    LET own == \E i \in 1..Len(rows) :
                    rows[i].request_id = request_id /\ rows[i].user_id = user_id
    IN  IF ~own THEN << rows, [success |-> FALSE, action |-> Absent] >>
        ELSE << [i \in 1..Len(rows) |->
                    IF rows[i].request_id = request_id
                    THEN [rows[i] EXCEPT !.user_confirmed = Some(confirmed),
                                         !.user_feedback = feedback,
                                         !.confirmed_at = Some(now)]
                    ELSE rows[i]],
                [success |-> TRUE,
                 action |-> IF confirmed THEN "execute" ELSE "cancel"] >>

\* MCPOrchestrator.confirm_tool_call: <<the rows afterwards, what it returns>>
confirm_tool_call(rows, now, request_id, user_id, confirmed, feedback) ==
    LET upd == update_tool_call_confirmation(rows, now, request_id, confirmed, feedback)
        success == upd[2]
    IN  << upd[1],
           IF ~success THEN [success |-> FALSE, action |-> Absent]
           ELSE [success |-> TRUE,
                 action |-> IF confirmed THEN "execute" ELSE "cancel"] >>

\* a client calls confirm_tool_call; lastConfirm keeps the call and its answer
ConfirmToolCall(request_id, user_id, confirmed, feedback) ==
    LET out == confirm_tool_call(db, clock, request_id, user_id, confirmed, feedback)
    IN  /\ clock < MaxUpdates
        /\ db' = out[1]
        /\ clock' = clock + 1
        /\ lastConfirm' = [request_id |-> request_id, user_id |-> user_id,
                           confirmed |-> confirmed, success |-> out[2].success,
                           action |-> out[2].action, at |-> clock]
        /\ UNCHANGED << regvars, blacklist, rules, index, pc, req, tool_calls, idx, loc,
                        results, response, events, oplog, lastExec >>

Confirm ==
    \E request_id \in RequestIds, user_id \in Users, confirmed \in BOOLEAN :
        ConfirmToolCall(request_id, user_id, confirmed, NULL)

\* MCPOrchestrator.record_execution_result
RecordExecutionResult(request_id, execution_success, execution_result) ==
    LET upd == update_tool_call_execution(db, clock, request_id, execution_success,
                                          execution_result)
    IN  /\ clock < MaxUpdates
        /\ db' = upd[1]
        /\ clock' = clock + 1
        /\ lastExec' = [request_id |-> request_id, success |-> execution_success,
                        result |-> execution_result, found |-> upd[2], at |-> clock]
        /\ UNCHANGED << regvars, blacklist, rules, index, pc, req, tool_calls, idx, loc,
                        results, response, events, oplog, lastConfirm >>

RecordExecution ==
    \E request_id \in RequestIds, execution_success \in BOOLEAN :
        RecordExecutionResult(request_id, execution_success, NULL)

\* queries sent one after the other
Next ==
    \/ \E q \in Queries : StartQuery(q)
    \/ \E q \in Queries : Route(q)
    \/ \E q \in Queries : Generate(q)
    \/ \E q \in Queries : RetrieveSearch(q)
    \/ \E q \in Queries : RetrieveFetch(q)
    \/ \E q \in Queries : Persist(q)
    \/ \E q \in Queries : StoreEmbedding(q)

Spec == Init /\ [][Next]_vars

\* queries, and a client that confirms and reports executions at any time
NextConfirm ==
    \/ \E q \in Queries : StartPlainQuery(q)
    \/ \E q \in Queries : Route(q)
    \/ \E q \in Queries : GenerateToConfirm(q)
    \/ \E q \in Queries : RetrieveSearch(q)
    \/ \E q \in Queries : RetrieveFetch(q)
    \/ \E q \in Queries : Persist(q)
    \/ \E q \in Queries : StoreEmbedding(q)
    \/ Confirm
    \/ RecordExecution

SpecConfirm == Init /\ [][NextConfirm]_vars

\* queries that run concurrently
NextConcurrent ==
    \/ \E q \in Queries : StartConcurrentQuery(q)
    \/ \E q \in Queries : Route(q)
    \/ \E q \in Queries : GenerateFew(q)
    \/ \E q \in Queries : RetrieveSearch(q)
    \/ \E q \in Queries : RetrieveFetch(q)
    \/ \E q \in Queries : Persist(q)
    \/ \E q \in Queries : StoreEmbedding(q)

SpecConcurrent == Init /\ [][NextConcurrent]_vars

---------------------------------------------------------------------------
(* The service registry at work.  Each action is one stretch of a task     *)
(* between two awaits; a slot holds the task's arguments, what it read,    *)
(* and in the end what it returned.                                        *)

Free(t) == task[t].pc \in {"idle", "done"}

\* the task returned: the slot keeps what it was and what it returned
Done(t, result) == [task[t] EXCEPT !.pc = "done", !.arg = NULL, !.seen = NULL, !.result = result]

\* time passes
Tick ==
    /\ utcnow < MaxTime
    /\ utcnow' = utcnow + 1
    /\ UNCHANGED << pipevars, services, task, started, applied >>

\* MCPServiceManager.register_service, up to the INSERT: the count of the
\* active services and the capacity check
StartRegister(t, reg, budget) ==
    /\ Free(t)
    /\ started.register < budget
    /\ started' = [started EXCEPT !.register = @ + 1]
    /\ task' = [task EXCEPT ![t] =
                  IF Len(get_active_services(services, NULL)) >= MaxServices
                  THEN [op |-> "register", pc |-> "done", arg |-> reg,
                        seen |-> NULL, result |-> Some(FALSE)]
                  ELSE [op |-> "register", pc |-> "insert", arg |-> reg,
                        seen |-> NULL, result |-> NULL]]
    /\ UNCHANGED << pipevars, services, utcnow, applied >>

\* register_service: the INSERT, and False for the exception it raised
RegisterInsert(t) ==
    /\ task[t].op = "register" /\ task[t].pc = "insert"
    /\ services' = register_mcp_service(services, task[t].arg)[1]
    /\ task' = [task EXCEPT ![t] =
                  [task[t] EXCEPT
                     !.pc = "done",
                     !.result = Some(register_mcp_service(services, task[t].arg)[2])]]
    /\ UNCHANGED << pipevars, utcnow, started, applied >>

\* a call outcome is reported for a service: update_service_metrics and then
\* update_circuit_breaker.  This is the first of them up to its UPDATE.
StartReport(t, service_name, success, latency_ms, budget) ==
    /\ Free(t)
    /\ started.report < budget
    /\ started' = [started EXCEPT !.report = @ + 1]
    /\ task' = [task EXCEPT ![t] =
                  [op |-> "report",
                   pc |-> IF get_mcp_service(services, service_name) = NULL
                          THEN "breaker" ELSE "metrics",
                   arg |-> [service_name |-> service_name, success |-> success,
                            latency_ms |-> latency_ms],
                   seen |-> get_mcp_service(services, service_name),
                   result |-> NULL]]
    /\ UNCHANGED << pipevars, services, utcnow, applied >>

\* update_service_metrics: the UPDATE, with the values computed from the row
\* read before
MetricsWrite(t) ==
    /\ task[t].op = "report" /\ task[t].pc = "metrics"
    /\ services' = ApplyMetrics(services, task[t].arg.service_name,
                      MetricsValues(task[t].seen[1], task[t].arg.success,
                                    task[t].arg.latency_ms))
    /\ applied' = [applied EXCEPT ![task[t].arg.service_name] =
                     [total |-> @.total + 1,
                      success |-> @.success + (IF task[t].arg.success THEN 1 ELSE 0),
                      failed |-> @.failed + (IF task[t].arg.success THEN 0 ELSE 1),
                      streak |-> IF task[t].arg.success THEN 0 ELSE @.streak + 1]]
    /\ task' = [task EXCEPT ![t] = [@ EXCEPT !.pc = "breaker", !.seen = NULL]]
    /\ UNCHANGED << pipevars, utcnow, started >>

\* what update_circuit_breaker decides from the row it reads now
BreakerDecision(t) ==
    IF get_mcp_service(services, task[t].arg.service_name) = NULL THEN NULL
    ELSE update_circuit_breaker(
            get_mcp_service(services, task[t].arg.service_name)[1],
            task[t].arg.success, utcnow)

\* update_circuit_breaker: the row is read and the transition decided
BreakerRead(t) ==
    /\ task[t].op = "report" /\ task[t].pc = "breaker"
    /\ task' = [task EXCEPT ![t] =
                  IF BreakerDecision(t) = NULL THEN Done(t, NULL)
                  ELSE [@ EXCEPT !.pc = "breaker_write", !.seen = BreakerDecision(t)]]
    /\ UNCHANGED << pipevars, services, utcnow, started, applied >>

\* update_circuit_breaker: the update_service_health it decided on
BreakerWrite(t) ==
    /\ task[t].op = "report" /\ task[t].pc = "breaker_write"
    /\ services' = update_service_health(services, utcnow, task[t].arg.service_name,
                      task[t].seen[1].health_status, Some(task[t].seen[1].state))
    /\ task' = [task EXCEPT ![t] = Done(t, NULL)]
    /\ UNCHANGED << pipevars, utcnow, started, applied >>

\* _health_check_loop and check_service_health for one of the active
\* services, up to the UPDATE
StartProbe(t, service_name, budget) ==
    /\ Free(t)
    /\ started.probe < budget
    /\ \E i \in 1..Len(services) :
          services[i].is_active /\ services[i].service_name = service_name
    /\ started' = [started EXCEPT !.probe = @ + 1]
    /\ task' = [task EXCEPT ![t] =
                  [op |-> "probe", pc |-> "probe_write",
                   arg |-> [service_name |-> service_name],
                   seen |-> NULL, result |-> NULL]]
    /\ UNCHANGED << pipevars, services, utcnow, applied >>

\* check_service_health: the probe answered (is_healthy = True), the health
\* status is written
ProbeWrite(t) ==
    /\ task[t].op = "probe" /\ task[t].pc = "probe_write"
    /\ services' = update_service_health(services, utcnow, task[t].arg.service_name,
                      "healthy", NULL)
    /\ task' = [task EXCEPT ![t] = Done(t, Some(TRUE))]
    /\ UNCHANGED << pipevars, utcnow, started, applied >>

\* ToolRouter (mcp_manager/tool_router.py).  intent_keywords in the order of
\* the dict; its keywords outside ASCII are left out, the questions of the
\* model being ASCII
IntentKeywords ==
    << << "weather", << "weather", "temperature", "forecast" >> >>,
       << "email", << "email", "send", "mail" >> >>,
       << "file", << "file", "directory", "folder" >> >>,
       << "database", << "database", "query", "sql" >> >>,
       << "network", << "network", "request", "api", "http" >> >>,
       << "calculation", << "calculate", "math" >> >> >>

RECURSIVE DetectFrom(_, _)
DetectFrom(question_lower, i) ==
    IF i > Len(IntentKeywords) THEN <<>>
    ELSE (IF \E k \in 1..Len(IntentKeywords[i][2]) :
                Contains(question_lower, Lower(IntentKeywords[i][2][k]))
          THEN << IntentKeywords[i][1] >> ELSE <<>>) \o DetectFrom(question_lower, i + 1)

\* ToolRouter._detect_intent
_detect_intent(user_question) ==
    IF DetectFrom(Lower(user_question), 1) = <<>> THEN << "general" >>
    ELSE DetectFrom(Lower(user_question), 1)

\* the user_preferences table: user_id and preferred_tools
UserPreferences == << << "alice", << "send_mail", "read_file" >> >> >>

\* PostgreSQLManager.get_user_preference(user_id).preferred_tools, or None
get_user_preference(user_id) ==
    IF HasKey(UserPreferences, user_id) THEN Some(ValueOf(UserPreferences, user_id))
    ELSE NULL

\* tool.get("name") or tool.get("function", {}).get("name"): None is Absent
ToolName(tool) ==
    IF "name" \in DOMAIN tool /\ tool.name # "" THEN tool.name
    ELSE IF "function" \in DOMAIN tool /\ "name" \in DOMAIN tool.function
         THEN tool.function.name
         ELSE Absent

RECURSIVE ToolsOf(_, _)
\* the tools of the rows from the i-th on, one service after the other
ToolsOf(rows, i) ==
    IF i > Len(rows) THEN <<>> ELSE rows[i].tools \o ToolsOf(rows, i + 1)

\* the tools of the first active core service only
CoreToolsOfOneService(rows) ==
    IF get_active_services(rows, Some("L1")) = <<>> THEN <<>>
    ELSE get_active_services(rows, Some("L1"))[1].tools

\* ToolRouter._get_core_tools
_get_core_tools(rows) == ToolsOf(get_active_services(rows, Some("L1")), 1)

RECURSIVE DomainFrom(_, _, _)
DomainFrom(active, domain, i) ==
    IF i > Len(active) THEN <<>>
    ELSE (IF active[i].domain = Some(domain) THEN active[i].tools ELSE <<>>)
            \o DomainFrom(active, domain, i + 1)

\* ToolRouter._get_domain_tools
_get_domain_tools(rows, domain) ==
    DomainFrom(get_active_services(rows, Some("L2")), domain, 1)

RECURSIVE NamedFrom(_, _, _)
NamedFrom(tools, tool_names, i) ==
    IF i > Len(tools) THEN <<>>
    ELSE (IF \E k \in 1..Len(tool_names) : tool_names[k] = ToolName(tools[i])
          THEN << tools[i] >> ELSE <<>>) \o NamedFrom(tools, tool_names, i + 1)

\* ToolRouter._get_explicit_tools
_get_explicit_tools(rows, tool_names) ==
    NamedFrom(ToolsOf(get_active_services(rows, NULL), 1), tool_names, 1)

\* ToolRouter._get_user_preferred_tools
_get_user_preferred_tools(rows, user_id) ==
    IF get_user_preference(user_id) = NULL \/ get_user_preference(user_id) = Some(<<>>)
    THEN <<>>
    ELSE _get_explicit_tools(rows, get_user_preference(user_id)[1])

RECURSIVE IntentTools(_, _, _)
\* route_tools, step 3: the domain tools of the intents, one after the other
IntentTools(rows, intents, i) ==
    IF i > Len(intents) THEN <<>>
    ELSE _get_domain_tools(rows, intents[i]) \o IntentTools(rows, intents, i + 1)

RECURSIVE ActiveDomains(_, _, _)
ActiveDomains(rows, intents, i) ==
    IF i > Len(intents) THEN <<>>
    ELSE (IF _get_domain_tools(rows, intents[i]) # <<>> THEN << intents[i] >> ELSE <<>>)
            \o ActiveDomains(rows, intents, i + 1)

RECURSIVE UniqueFrom(_, _)
\* route_tools, step 5: the first tool of each name
UniqueFrom(tools, i) ==
    IF i > Len(tools) THEN <<>>
    ELSE (IF ToolName(tools[i]) \in { Absent, "" }
             \/ \E k \in 1..(i - 1) : ToolName(tools[k]) = ToolName(tools[i])
          THEN <<>> ELSE << tools[i] >>) \o UniqueFrom(tools, i + 1)

\* route_tools: the domain_tools of the result
RoutedDomainTools(rows, user_question, user_id, explicit_tools) ==
    (IF explicit_tools # NULL /\ explicit_tools # Some(<<>>)
     THEN _get_explicit_tools(rows, explicit_tools[1])
     ELSE IntentTools(rows, _detect_intent(user_question), 1))
    \o (IF user_id # NULL THEN _get_user_preferred_tools(rows, user_id[1]) ELSE <<>>)

\* route_tools merging the domain tools ahead of the core tools
RouteDomainFirst(rows, user_question, user_id, explicit_tools) ==
    [core_tools |-> _get_core_tools(rows),
     domain_tools |-> RoutedDomainTools(rows, user_question, user_id, explicit_tools),
     high_risk_tools |-> <<>>,
     total_tools |->
        UniqueFrom(RoutedDomainTools(rows, user_question, user_id, explicit_tools)
                     \o _get_core_tools(rows), 1),
     detected_intents |->
        IF explicit_tools # NULL /\ explicit_tools # Some(<<>>) THEN <<>>
        ELSE _detect_intent(user_question),
     active_domains |->
        IF explicit_tools # NULL /\ explicit_tools # Some(<<>>) THEN <<>>
        ELSE ActiveDomains(rows, _detect_intent(user_question), 1)]

\* ToolRouter.route_tools
route_tools(rows, user_question, user_id, explicit_tools) ==
    [core_tools |-> _get_core_tools(rows),
     domain_tools |-> RoutedDomainTools(rows, user_question, user_id, explicit_tools),
     high_risk_tools |-> <<>>,
     total_tools |->
        UniqueFrom(_get_core_tools(rows)
                     \o RoutedDomainTools(rows, user_question, user_id, explicit_tools), 1),
     detected_intents |->
        IF explicit_tools # NULL /\ explicit_tools # Some(<<>>) THEN <<>>
        ELSE _detect_intent(user_question),
     active_domains |->
        IF explicit_tools # NULL /\ explicit_tools # Some(<<>>) THEN <<>>
        ELSE ActiveDomains(rows, _detect_intent(user_question), 1)]

\* the questions routed, the users asking and the tools named outright
RoutedQuestions == { "send an email", "hello", "Weather forecast by mail" }
RoutedUsers == { NULL, Some("alice") }
ExplicitTools == { NULL, Some(<< "read_file" >>), Some(<< "shutdown", "forecast" >>) }

\* ToolRouter.route_tools for one query, its reads taken together
RouteTools(t, user_question, user_id, explicit_tools, budget) ==
    /\ Free(t)
    /\ started.route < budget
    /\ started' = [started EXCEPT !.route = @ + 1]
    /\ task' = [task EXCEPT ![t] =
                  [op |-> "route", pc |-> "done",
                   arg |-> [user_question |-> user_question, user_id |-> user_id,
                            explicit_tools |-> explicit_tools],
                   seen |-> NULL,
                   result |-> Some(route_tools(services, user_question, user_id,
                                               explicit_tools))]]
    /\ UNCHANGED << pipevars, services, utcnow, applied >>

\* the registry used by one caller at a time
Sequential == \A t \in Slots : Free(t)

\* the rule files were read
InitRegistry == Init /\ blacklist = BlacklistFile

\* one service, and the outcomes of its calls reported one after the other
NextBreaker ==
    \/ Tick
    \/ \E reg \in Registrations : Sequential /\ StartRegister(1, reg, 1)
    \/ RegisterInsert(1)
    \/ \E n \in ServiceNames, success \in BOOLEAN, latency_ms \in Latencies :
            Sequential /\ StartReport(1, n, success, latency_ms, FailureThreshold + 4)
    \/ MetricsWrite(1)
    \/ BreakerRead(1)
    \/ BreakerWrite(1)

SpecBreaker == InitRegistry /\ [][NextBreaker]_vars

\* a service whose calls fail, the health loop and a query routed
NextRouting ==
    \/ Tick
    \/ \E reg \in Registrations : Sequential /\ StartRegister(1, reg, 1)
    \/ RegisterInsert(1)
    \/ \E n \in ServiceNames, success \in BOOLEAN, latency_ms \in Latencies :
            Sequential /\ StartReport(1, n, success, latency_ms, FailureThreshold)
    \/ MetricsWrite(1)
    \/ BreakerRead(1)
    \/ BreakerWrite(1)
    \/ \E n \in ServiceNames : Sequential /\ StartProbe(1, n, 1)
    \/ ProbeWrite(1)
    \/ \E user_question \in RoutedQuestions, user_id \in RoutedUsers,
          explicit_tools \in ExplicitTools :
            Sequential /\ RouteTools(1, user_question, user_id, explicit_tools, 1)

SpecRouting == InitRegistry /\ [][NextRouting]_vars

\* registrations and reports of call outcomes that run concurrently, within
\* one second
NextRegistryConcurrent ==
    \/ \E t \in Slots, reg \in Registrations : StartRegister(t, reg, MaxServices + 1)
    \/ \E t \in Slots : RegisterInsert(t)
    \/ \E t \in Slots, n \in ServiceNames, success \in BOOLEAN, latency_ms \in Latencies :
            StartReport(t, n, success, latency_ms, 2)
    \/ \E t \in Slots : MetricsWrite(t)
    \/ \E t \in Slots : BreakerRead(t)
    \/ \E t \in Slots : BreakerWrite(t)

SpecRegistryConcurrent == InitRegistry /\ [][NextRegistryConcurrent]_vars

\* RuleEngine.reload_rules, called with the files as they are on disk, each
\* of them readable or not.  The method is synchronous: no task runs between
\* its two assignments.
Reload ==
    \E version \in ConfigVersions :
    \E blacklist_file \in { Some(version[1]), NULL }, rules_file \in { Some(version[2]), NULL } :
        /\ blacklist' = reload_rules(blacklist, rules, blacklist_file, rules_file)[1]
        /\ rules' = reload_rules(blacklist, rules, blacklist_file, rules_file)[2]
        /\ UNCHANGED << regvars, index, db, clock, pc, req, tool_calls, idx, loc,
                        results, response, events, oplog, lastConfirm, lastExec >>

\* a response with one of the drafts of concurrent queries, or with none
GenerateOne(q) == \E fs \in SingleDrafts(SmallDraftPool) : Generated(q, fs)

\* a query of the non-streaming endpoint, sent at any time
StartOverlappingQuery(q) ==
    /\ InOrder(q)
    /\ Start(q, "alice", QuestionOf(1), FALSE)

\* queries that run concurrently while the rules are reloaded
NextReload ==
    \/ \E q \in Queries : StartOverlappingQuery(q)
    \/ \E q \in Queries : Route(q)
    \/ \E q \in Queries : GenerateOne(q)
    \/ \E q \in Queries : RetrieveSearch(q)
    \/ \E q \in Queries : RetrieveFetch(q)
    \/ \E q \in Queries : Persist(q)
    \/ \E q \in Queries : StoreEmbedding(q)
    \/ Reload

SpecReload == Init /\ [][NextReload]_vars

\* the rules a caller may add: a new one, one under an id of the rules file,
\* one with no rule_id and one with no condition
CustomRules ==
    { [rule_id |-> "r_new", name |-> "no transfers",
       condition |-> [tool_name_pattern |-> "transfer", parameter_check |-> <<>>],
       action |-> "block", risk_score |-> <<90>>],
      [rule_id |-> "r_force", name |-> "another rule",
       condition |-> [tool_name_pattern |-> "read", parameter_check |-> <<>>],
       action |-> "block", risk_score |-> <<>>],
      [rule_id |-> Absent, name |-> "no id",
       condition |-> [tool_name_pattern |-> "read", parameter_check |-> <<>>],
       action |-> "log", risk_score |-> <<>>],
      [rule_id |-> "r_bare", name |-> "no condition", condition |-> NULL,
       action |-> "log", risk_score |-> <<>>] }

\* the ids a caller may remove
RemovedIds == { "r_force", "r_disk", "r_new", "r_bare", "r_none" }

\* the ids of the rules, in order
RuleIds(rs) == [i \in 1..Len(rs) |-> rs[i].rule_id]

\* add_custom_rule without the look at the existing ids
AddRuleUnchecked(rs, rule) ==
    IF rule.rule_id = Absent \/ rule.condition = NULL THEN << rs, FALSE >>
    ELSE << Append(rs, rule), TRUE >>

\* RuleEngine.add_custom_rule: the rules after it and what it returns
add_custom_rule(rs, rule) ==
    IF rule.rule_id = Absent \/ rule.condition = NULL THEN << rs, FALSE >>
    ELSE IF \E i \in 1..Len(rs) : RuleIds(rs)[i] = rule.rule_id THEN << rs, FALSE >>
    ELSE << Append(rs, rule), TRUE >>

RECURSIVE WithoutId(_, _, _)
WithoutId(rs, rule_id, i) ==
    IF i > Len(rs) THEN <<>>
    ELSE (IF rs[i].rule_id # rule_id THEN << rs[i] >> ELSE <<>>)
            \o WithoutId(rs, rule_id, i + 1)

\* RuleEngine.remove_rule: the rules after it and what it returns
remove_rule(rs, rule_id) ==
    << WithoutId(rs, rule_id, 1), Len(WithoutId(rs, rule_id, 1)) < Len(rs) >>

\* a call of add_custom_rule; the slot keeps the call and what it returned
AddRule ==
    \E rule \in CustomRules :
        /\ rules' = add_custom_rule(rules, rule)[1]
        /\ task' = [task EXCEPT ![1] =
                      [op |-> "add_rule", pc |-> "done", arg |-> rule, seen |-> NULL,
                       result |-> Some(add_custom_rule(rules, rule)[2])]]
        /\ UNCHANGED << services, utcnow, started, applied, blacklist, index, db, clock,
                        pc, req, tool_calls, idx, loc, results, response, events,
                        oplog, lastConfirm, lastExec >>

\* a call of remove_rule
RemoveRule ==
    \E rule_id \in RemovedIds :
        /\ rules' = remove_rule(rules, rule_id)[1]
        /\ task' = [task EXCEPT ![1] =
                      [op |-> "remove_rule", pc |-> "done", arg |-> rule_id, seen |-> NULL,
                       result |-> Some(remove_rule(rules, rule_id)[2])]]
        /\ UNCHANGED << services, utcnow, started, applied, blacklist, index, db, clock,
                        pc, req, tool_calls, idx, loc, results, response, events,
                        oplog, lastConfirm, lastExec >>

\* rules added to and removed from the running engine
NextRules == AddRule \/ RemoveRule

SpecRules == Init /\ [][NextRules]_vars

\* the registry as the router finds it: services of the three layers, two
\* core services exporting a tool of the same name, a domain service
\* exporting a tool under a core tool's name, tools named at the top level
\* or under "function", and a tool with no name
MaxCatalog == 3

RoutedServices ==
    << [service_name |-> "fs", service_url |-> "http://fs",
        tools |-> << [name |-> "read_file"], [description |-> "no name"] >>,
        layer |-> "L1", domain |-> NULL],
       [service_name |-> "sys", service_url |-> "http://sys",
        tools |-> << [name |-> "read_file", description |-> "of sys"],
                     [type |-> "function", function |-> [name |-> "get_time"]] >>,
        layer |-> "L1", domain |-> NULL],
       [service_name |-> "mail", service_url |-> "http://mail",
        tools |-> << [type |-> "function", function |-> [name |-> "send_mail"]],
                     [name |-> "read_file", description |-> "of mail"] >>,
        layer |-> "L2", domain |-> Some("email")],
       [service_name |-> "sky", service_url |-> "http://sky",
        tools |-> << [name |-> "forecast"],
                     [name |-> "send_mail", description |-> "of sky"] >>,
        layer |-> "L2", domain |-> Some("weather")],
       [service_name |-> "admin", service_url |-> "http://admin",
        tools |-> << [name |-> "shutdown"] >>, layer |-> "L3", domain |-> NULL] >>

\* the rows of up to MaxCatalog registered services, in any order
Catalogs ==
    { [i \in 1..Len(order) |-> NewService(RoutedServices[order[i]])] :
        order \in { o \in UNION { [1..n -> 1..Len(RoutedServices)] : n \in 0..MaxCatalog } :
                      \A i, j \in 1..Len(o) : i # j => o[i] # o[j] } }

InitCatalog == InitExceptServices /\ blacklist = BlacklistFile /\ services \in Catalogs

\* queries routed over a registry that holds services
NextCatalog ==
    \E user_question \in RoutedQuestions, user_id \in RoutedUsers,
       explicit_tools \in ExplicitTools :
        RouteTools(1, user_question, user_id, explicit_tools, 1)

SpecCatalog == InitCatalog /\ [][NextCatalog]_vars

---------------------------------------------------------------------------
(* Retrieval that fails.  retrieve_similar_cases catches every exception  *)
(* of its body and returns the empty list (core/rag_retriever.py).        *)

\* the stages of retrieve_similar_cases that can raise before its second await
EarlyStages == { "embedding", "search" }

\* the evaluation that follows a retrieval that failed at the stage
AfterFailure(q, stage, o) ==
    Apply(q, [o EXCEPT !.ops = << [op |-> "retrieve_failed", draft |-> idx[q],
                                  phase |-> loc[q].phase, stage |-> stage] >> \o @])

\* retrieve_similar_cases: model.get_embedding raised, or the search did;
\* the except clause returns [], and the evaluation goes on to its next await
RetrieveEmbedFails(q) ==
    /\ pc[q] = "retrieve_embed"
    /\ \E stage \in EarlyStages :
          AfterFailure(q, stage,
                       Evaluate(req[q], q, tool_calls[q], idx[q], loc[q], <<>>,
                                blacklist, rules, results[q]))
    /\ UNCHANGED << regvars, blacklist, rules, index, db, clock, req, tool_calls,
                    lastConfirm, lastExec >>

\* retrieve_similar_cases: db.get_history_by_ids raised; the except clause
\* returns [], and the evaluation goes on to its next await
RetrieveFetchFails(q) ==
    /\ pc[q] = "retrieve_fetch"
    /\ AfterFailure(q, "fetch",
                    Evaluate(req[q], q, tool_calls[q], idx[q],
                             [phase |-> loc[q].phase,
                              tool_parameters |-> loc[q].tool_parameters],
                             <<>>, blacklist, rules, results[q]))
    /\ UNCHANGED << regvars, blacklist, rules, index, db, clock, req, tool_calls,
                    lastConfirm, lastExec >>

\* queries whose retrievals may fail
NextDegraded ==
    \/ \E q \in Queries : StartQuery(q)
    \/ \E q \in Queries : Route(q)
    \/ \E q \in Queries : GenerateOne(q)
    \/ \E q \in Queries : RetrieveSearch(q)
    \/ \E q \in Queries : RetrieveFetch(q)
    \/ \E q \in Queries : RetrieveEmbedFails(q)
    \/ \E q \in Queries : RetrieveFetchFails(q)
    \/ \E q \in Queries : Persist(q)
    \/ \E q \in Queries : StoreEmbedding(q)

SpecDegraded == Init /\ [][NextDegraded]_vars

---------------------------------------------------------------------------
(* The scorer on its own: assess_tool_risk applied to calls, histories and *)
(* rule results of every kind.                                             *)

\* rules whose risk scores bring calls onto the two thresholds
ThresholdRules ==
    << [rule_id |-> "r_upd", name |-> "updates",
        condition |-> [tool_name_pattern |-> "update", parameter_check |-> <<>>],
        action |-> "log", risk_score |-> <<30>>],
       [rule_id |-> "r_del", name |-> "deletes",
        condition |-> [tool_name_pattern |-> "delete", parameter_check |-> <<>>],
        action |-> "log", risk_score |-> <<100>>] >>

\* the engines whose rule results are scored
ScoredEngines ==
    { << EmptyBlacklist, <<>> >>, << BlacklistFile, RulesFile >>,
      << EmptyBlacklist, ThresholdRules >> }

ScoredTools == { "delete_file", "update_row", "format_disk", "read_file", "ping" }

ScoredParameters ==
    { <<>>,
      << <<"path", "/tmp/x">> >>,
      << <<"password", "x">>, <<"user", "admin">> >>,
      << <<"admin_password", "force">> >>,
      << <<"api_key", "k">>, <<"mode", "force">>, <<"scope", "ALL">> >>,
      << <<"token", "t">>, <<"as", "root">>, <<"glob", "*">>, <<"recursive", "yes">> >> }

\* analyses as analyze_historical_feedback returns them
ScoredHistories ==
    { NoHistoryAnalysis }
    \cup { [has_history |-> TRUE, risk_indication |-> ind,
            common_patterns |-> <<>>, user_preferences |-> <<>>] :
              ind \in { "low", "medium", "high" } }

\* RiskAssessor.assess_tool_risk called once; the slot keeps the call and
\* what it returned
Assess(t, tool_name, tool_parameters, historical_analysis, rule_result) ==
    /\ Free(t)
    /\ task' = [task EXCEPT ![t] =
                  [op |-> "assess", pc |-> "done",
                   arg |-> [tool_name |-> tool_name, tool_parameters |-> tool_parameters,
                            historical_analysis |-> historical_analysis,
                            rule_result |-> rule_result],
                   seen |-> NULL,
                   result |-> Some(assess_tool_risk(tool_name, tool_parameters,
                                                    historical_analysis, rule_result))]]
    /\ UNCHANGED << pipevars, services, utcnow, started, applied >>

NextScorer ==
    \E tool_name \in ScoredTools, tool_parameters \in ScoredParameters,
       historical_analysis \in ScoredHistories, engine \in ScoredEngines :
        Assess(1, tool_name, tool_parameters, historical_analysis,
               check_tool_call(engine[1], engine[2], tool_name, tool_parameters))

SpecScorer == InitRegistry /\ [][NextScorer]_vars

---------------------------------------------------------------------------
(* The health-check loop (mcp_manager/service_manager.py).  Slot 1 is the  *)
(* loop task that start() creates, with the probes it gathers; slot 2 is   *)
(* the caller of stop().  A task that was cancelled gets CancelledError at  *)
(* its next step, and no except Exception clause catches it.               *)

\* the cycles of the loop that are followed
MaxCycles == 2

\* the registry at start(): the services registered before
HealthCatalogs ==
    { <<>>, << NewService(ServicePool[1]) >>,
      << NewService(ServicePool[1]), NewService(ServicePool[2]) >> }

\* the loop task
HealthLoop(at, cycle, failures, must_cancel, children) ==
    [op |-> "health_loop", pc |-> at,
     arg |-> [cycle |-> cycle, failures |-> failures, must_cancel |-> must_cancel],
     seen |-> children, result |-> NULL]

\* the loop task moved on, as it is otherwise
LoopAt(at, children) ==
    [task[1] EXCEPT !.pc = at, !.seen = children]

\* the loop that any exception ends
LoopBreaksOnAnyError(exception) == "done"

\* the except clauses of _health_check_loop: where the loop goes on
LoopAfter(exception) ==
    IF exception = "CancelledError" THEN "done" ELSE "sleep"

\* check_service_health(service.service_name) for each service listed
ProbesOf(listed) ==
    [k \in 1..Len(listed) |->
        [service_name |-> listed[k].service_name, pc |-> "get", result |-> "pending"]]

InFlight(children) == { k \in 1..Len(children) : children[k].pc # "done" }

Running == task[1].op = "health_loop" /\ task[1].pc # "done"

\* start(): asyncio.create_task(self._health_check_loop()).  The application
\* starts the manager once, and stops it after that (main.py, lifespan)
StartManager ==
    /\ task[1].op = "none" /\ task[2].op = "none"
    /\ task' = [task EXCEPT ![1] = HealthLoop("created", 0, 0, FALSE, <<>>)]
    /\ UNCHANGED << pipevars, services, utcnow, started, applied >>

\* the loop task runs up to `await asyncio.sleep`, at its start or after a
\* cycle; the interval passes
Sleep ==
    /\ Running /\ ~task[1].arg.must_cancel
    /\ task[1].pc \in { "created", "sleep" }
    /\ task[1].arg.cycle < MaxCycles
    /\ task' = [task EXCEPT ![1] =
                  [LoopAt("list", <<>>) EXCEPT !.arg.cycle = @ + 1]]
    /\ UNCHANGED << pipevars, services, utcnow, started, applied >>

\* get_active_services returned: the probes are gathered, or with no service
\* the cycle is over; or it raised, and the except Exception clause logs
ListServices ==
    /\ Running /\ ~task[1].arg.must_cancel
    /\ task[1].pc = "list"
    /\ \E ok \in BOOLEAN :
          task' = [task EXCEPT ![1] =
                     IF ~ok
                     THEN [LoopAt(LoopAfter("Exception"), <<>>)
                              EXCEPT !.arg.failures = @ + 1]
                     ELSE IF get_active_services(services, NULL) = <<>>
                          THEN LoopAt("sleep", <<>>)
                          ELSE LoopAt("gather",
                                      ProbesOf(get_active_services(services, NULL)))]
    /\ UNCHANGED << pipevars, services, utcnow, started, applied >>

\* one step of check_service_health for the k-th probe: the database call
\* it awaits returned (ok) or raised
ProbeStep(k, ok) ==
    /\ Running /\ ~task[1].arg.must_cancel
    /\ task[1].pc = "gather"
    /\ k \in InFlight(task[1].seen)
    /\ services' =
          IF ok /\ task[1].seen[k].pc = "update"
          THEN update_service_health(services, utcnow, task[1].seen[k].service_name,
                                     "healthy", NULL)
          ELSE IF ok /\ task[1].seen[k].pc = "down"
          THEN update_service_health(services, utcnow, task[1].seen[k].service_name,
                                     "down", NULL)
          ELSE services
    /\ task' = [task EXCEPT ![1].seen[k] =
                  CASE @.pc = "get" /\ ok ->
                          IF get_mcp_service(services, @.service_name) = NULL
                          THEN [@ EXCEPT !.pc = "done", !.result = "False"]
                          ELSE [@ EXCEPT !.pc = "update"]
                    [] @.pc = "update" /\ ok -> [@ EXCEPT !.pc = "done", !.result = "True"]
                    [] @.pc = "down" /\ ok -> [@ EXCEPT !.pc = "done", !.result = "False"]
                    [] @.pc = "down" /\ ~ok -> [@ EXCEPT !.pc = "done", !.result = "raised"]
                    [] OTHER -> [@ EXCEPT !.pc = "down"],
                            ![1].arg.failures = IF ok THEN @ ELSE @ + 1]
    /\ UNCHANGED << pipevars, utcnow, started, applied >>

\* asyncio.gather(*tasks, return_exceptions=True) returned: the cycle is over
GatherReturns ==
    /\ Running /\ ~task[1].arg.must_cancel
    /\ task[1].pc = "gather"
    /\ InFlight(task[1].seen) = {}
    /\ task' = [task EXCEPT ![1] = LoopAt("sleep", task[1].seen)]
    /\ UNCHANGED << pipevars, services, utcnow, started, applied >>

\* stop(): the task is cancelled and awaited; with no task, or with a task
\* that is done, stop returns at once
Stop ==
    /\ task[2].op = "none"
    /\ task' = [task EXCEPT
                  ![1] = IF Running THEN [@ EXCEPT !.arg.must_cancel = TRUE] ELSE @,
                  ![2] = [op |-> "stop", pc |-> IF Running THEN "await_loop" ELSE "done",
                          arg |-> NULL, seen |-> NULL, result |-> NULL]]
    /\ UNCHANGED << pipevars, services, utcnow, started, applied >>

\* a probe of the cancelled gather gets CancelledError at its await
ProbeCancelled(k) ==
    /\ Running /\ task[1].arg.must_cancel
    /\ task[1].pc = "gather"
    /\ k \in InFlight(task[1].seen)
    /\ task' = [task EXCEPT ![1].seen[k] =
                  [@ EXCEPT !.pc = "done", !.result = "cancelled"]]
    /\ UNCHANGED << pipevars, services, utcnow, started, applied >>

\* the loop task gets CancelledError at its await (the gather's once its
\* probes are done) and breaks; cancelled before its first step it never runs
LoopCancelled ==
    /\ Running /\ task[1].arg.must_cancel
    /\ task[1].pc = "gather" => InFlight(task[1].seen) = {}
    /\ task' = [task EXCEPT ![1] = LoopAt(LoopAfter("CancelledError"), task[1].seen)]
    /\ UNCHANGED << pipevars, services, utcnow, started, applied >>

\* `await self.health_check_task` returned, or raised the CancelledError
\* that stop() swallows
StopReturns ==
    /\ task[2].op = "stop" /\ task[2].pc = "await_loop"
    /\ task[1].pc = "done"
    /\ task' = [task EXCEPT ![2].pc = "done"]
    /\ UNCHANGED << pipevars, services, utcnow, started, applied >>

NextHealth ==
    \/ Tick
    \/ StartManager
    \/ Sleep
    \/ ListServices
    \/ \E k \in 1..(MaxServices + 1), ok \in BOOLEAN : ProbeStep(k, ok)
    \/ GatherReturns
    \/ Stop
    \/ \E k \in 1..(MaxServices + 1) : ProbeCancelled(k)
    \/ LoopCancelled
    \/ StopReturns

InitHealth == InitExceptServices /\ blacklist = BlacklistFile /\ services \in HealthCatalogs

SpecHealth == InitHealth /\ [][NextHealth]_vars

\* the service whose breaker is followed
WatchedService == ServicePool[1]

\* outcome reports of one service that run concurrently, and a probe
NextBreakerConcurrent ==
    \/ Tick
    \/ Sequential /\ StartRegister(1, WatchedService, 1)
    \/ RegisterInsert(1)
    \/ \E t \in Slots, success \in BOOLEAN, latency_ms \in Latencies :
            StartReport(t, WatchedService.service_name, success, latency_ms,
                        FailureThreshold + 2)
    \/ \E t \in Slots : MetricsWrite(t)
    \/ \E t \in Slots : BreakerRead(t)
    \/ \E t \in Slots : BreakerWrite(t)
    \/ \E t \in Slots : StartProbe(t, WatchedService.service_name, 1)
    \/ \E t \in Slots : ProbeWrite(t)

SpecBreakerConcurrent == InitRegistry /\ [][NextBreakerConcurrent]_vars

---------------------------------------------------------------------------
(* The rule engine on its own: check_tool_call applied to calls under     *)
(* engines of every kind.                                                 *)

CheckedEngines ==
    ScoredEngines \cup { << EmptyBlacklist, RulesFile >>, << BlacklistFile2, RulesFile2 >> }

CheckedTools ==
    { "read_file", "delete_file", "drop_table", "transfer_funds", "format_disk",
      "Drop_Delete_Read" }

CheckedParameters ==
    { <<>>,
      << <<"path", "/tmp/x">> >>,
      << <<"table", "users">>, <<"force", "yes">> >>,
      << <<"force", "no">> >>,
      << <<"device", "/dev/sda">>, <<"force", "Yes, please">> >> }

\* RuleEngine.check_tool_call called once on an engine; the slot keeps the
\* engine, the call and what it returned
CheckToolCall(t, engine, tool_name, tool_parameters) ==
    /\ Free(t)
    /\ task' = [task EXCEPT ![t] =
                  [op |-> "check", pc |-> "done",
                   arg |-> [blacklist |-> engine[1], rules |-> engine[2],
                            tool_name |-> tool_name,
                            tool_parameters |-> tool_parameters],
                   seen |-> NULL,
                   result |-> Some(check_tool_call(engine[1], engine[2], tool_name,
                                                   tool_parameters))]]
    /\ UNCHANGED << pipevars, services, utcnow, started, applied >>

NextRuleCheck ==
    \E engine \in CheckedEngines, tool_name \in CheckedTools,
       tool_parameters \in CheckedParameters :
        CheckToolCall(1, engine, tool_name, tool_parameters)

SpecRuleCheck == InitRegistry /\ [][NextRuleCheck]_vars

---------------------------------------------------------------------------
(* The retrieval on its own: retrieve_similar_cases over histories of     *)
(* stored calls that are longer than the index search and top_k reach.    *)

\* the stored calls of a history
MaxHistory == 12

\* the kinds of stored call: whose it is and what was asked
HistoryKinds ==
    << [user_id |-> "alice", user_question |-> "delete the temp file"],
       [user_id |-> "bob", user_question |-> "delete the temp file"],
       [user_id |-> "alice", user_question |-> "remove the temp file"],
       [user_id |-> "bob", user_question |-> "what time is it" ] >>

\* the row of a stored call of the kind, as create_tool_call_history leaves it
HistoryRow(rows, kind) ==
    InsertedRow(rows, 0,
                [request_id |-> Len(rows) + 1, user_id |-> kind.user_id,
                 user_question |-> kind.user_question, tool_name |-> "read_file",
                 tool_parameters |-> <<>>, risk_score |-> 100,
                 requires_confirmation |-> FALSE, matched_rules |-> <<>>,
                 blacklist_hit |-> FALSE, similar_history_ids |-> <<>>])

RECURSIVE StoredRows(_, _)
\* the table after n calls of each kind were stored, kind after kind, the
\* kinds taken in the order given
StoredRows(order, counts) ==
    IF Len(order) = 0 THEN <<>>
    ELSE IF counts[order[Len(order)]] = 0
         THEN StoredRows(SubSeq(order, 1, Len(order) - 1), counts)
         ELSE LET before == StoredRows(order, [counts EXCEPT ![order[Len(order)]] = @ - 1])
              IN  Append(before, HistoryRow(before, HistoryKinds[order[Len(order)]]))

RECURSIVE IndexOf(_, _)
\* the index after store_question_embedding of the first n rows
IndexOf(rows, n) ==
    IF n = 0 THEN NewIndex("Flat")
    ELSE add_vector(IndexOf(rows, n - 1), get_embedding(rows[n].user_question),
                    rows[n].id)[1]

\* how many calls of each kind were stored
HistoryCounts ==
    { c \in [1..Len(HistoryKinds) -> 0..MaxHistory] : c[1] + c[2] + c[3] + c[4] <= MaxHistory }

HistoryOrders == { << 1, 2, 3, 4 >>, << 4, 3, 2, 1 >> }

InitHistory ==
    /\ InitOutsideStore /\ blacklist = BlacklistFile /\ services = <<>>
    /\ \E order \in HistoryOrders, counts \in HistoryCounts :
          LET rows == StoredRows(order, counts)
          IN  db = rows /\ index = IndexOf(rows, Len(rows))

\* retrieve_similar_cases up to the await of get_history_by_ids: the
\* embedding of the question and the index search
RetrieveCases(t, user_question, user_id) ==
    LET similar_vectors == faiss_search(index, get_embedding(user_question), TopK * 2)
    IN  /\ Free(t)
        /\ task' = [task EXCEPT ![t] =
                      IF Len(similar_vectors) = 0
                      THEN [op |-> "retrieve", pc |-> "done",
                            arg |-> [user_question |-> user_question, user_id |-> user_id],
                            seen |-> similar_vectors, result |-> <<>>]
                      ELSE [op |-> "retrieve", pc |-> "fetch",
                            arg |-> [user_question |-> user_question, user_id |-> user_id],
                            seen |-> similar_vectors, result |-> NULL]]
        /\ UNCHANGED << pipevars, services, utcnow, started, applied >>

\* retrieve_similar_cases from the rows fetched to its return
ReturnCases(t) ==
    LET similar_vectors == task[t].seen
        database_ids == [i \in 1..Len(similar_vectors) |-> similar_vectors[i][1]]
        histories == get_history_by_ids(db, database_ids)
    IN  /\ task[t].op = "retrieve"
        /\ task[t].pc = "fetch"
        /\ task' = [task EXCEPT ![t].pc = "done",
                                ![t].result = BuildCases(histories, similar_vectors,
                                                         task[t].arg.user_id)]
        /\ UNCHANGED << pipevars, services, utcnow, started, applied >>

RetrievedQuestions == {"delete the temp file", "remove the temp file"}

NextRetrieve ==
    \/ \E user_question \in RetrievedQuestions, user_id \in Users \cup {""} :
            RetrieveCases(1, user_question, user_id)
    \/ ReturnCases(1)

SpecRetrieve == InitHistory /\ [][NextRetrieve]_vars

---------------------------------------------------------------------------
(* The audit trail of blocked calls: queries whose drafts the blacklist or *)
(* a block rule stops, and a client that confirms at any time.             *)

\* a draft the blacklist stops, one a block rule stops, and one that passes
AuditDraftPool ==
    { d \in DraftPool : d.name \in {"format_disk", "drop_table", "delete_file"} }

\* the last query proposes up to MaxCalls of them, the ones before one call
GenerateAudited(q) ==
    \E fs \in (IF q = NumQueries THEN DraftLists(AuditDraftPool)
                ELSE { <<d>> : d \in AuditDraftPool }) :
        Generated(q, fs)

\* the client confirms some request
ConfirmExecution ==
    \E request_id \in RequestIds : ConfirmToolCall(request_id, "alice", TRUE, NULL)

NextAudit ==
    \/ \E q \in Queries : StartQuery(q)
    \/ \E q \in Queries : Route(q)
    \/ \E q \in Queries : GenerateAudited(q)
    \/ \E q \in Queries : RetrieveSearch(q)
    \/ \E q \in Queries : RetrieveFetch(q)
    \/ \E q \in Queries : Persist(q)
    \/ \E q \in Queries : StoreEmbedding(q)
    \/ ConfirmExecution

SpecAudit == InitRegistry /\ [][NextAudit]_vars

---------------------------------------------------------------------------
(* Hot reloads of an engine whose rules are also added at runtime.  Slot 1 *)
(* keeps the last call made on the engine.                                 *)

\* RuleEngine.reload_rules called with the files as they are on disk, each
\* readable or not; the slot keeps the files and the engine as it was
ReloadCall(t) ==
    \E version \in ConfigVersions :
    \E blacklist_file \in { Some(version[1]), NULL }, rules_file \in { Some(version[2]), NULL } :
        /\ blacklist' = reload_rules(blacklist, rules, blacklist_file, rules_file)[1]
        /\ rules' = reload_rules(blacklist, rules, blacklist_file, rules_file)[2]
        /\ task' = [task EXCEPT ![t] =
                      [op |-> "reload", pc |-> "done",
                       arg |-> [blacklist_file |-> blacklist_file,
                                rules_file |-> rules_file],
                       seen |-> [blacklist |-> blacklist, rules |-> rules],
                       result |-> NULL]]
        /\ UNCHANGED << services, utcnow, started, applied, index, db, clock,
                        pc, req, tool_calls, idx, loc, results, response, events,
                        oplog, lastConfirm, lastExec >>

NextHotReload ==
    \/ AddRule
    \/ ReloadCall(1)

SpecHotReload == Init /\ [][NextHotReload]_vars

---------------------------------------------------------------------------
(* The default index: IVFFlat, which must be trained before it takes      *)
(* vectors, created empty.                                                 *)

\* the values of faiss.nlist: the smallest ones and the default
NlistValues == { 1, 2, Nlist }

InitWarmup ==
    /\ InitOutsideStore /\ blacklist = BlacklistFile /\ services = <<>>
    /\ db = <<>>
    /\ \E nlist \in NlistValues : index = NewIndexOf("IVFFlat", nlist)

\* queries, each of which stores the embedding of its question; a search
\* that finds nothing returns before get_history_by_ids, so the retrieval
\* has no second step here
NextWarmup ==
    \/ \E q \in Queries : StartQuery(q)
    \/ \E q \in Queries : Route(q)
    \/ \E q \in Queries : GenerateOne(q)
    \/ \E q \in Queries : RetrieveSearch(q)
    \/ \E q \in Queries : Persist(q)
    \/ \E q \in Queries : StoreEmbedding(q)

SpecWarmup == InitWarmup /\ [][NextWarmup]_vars

---------------------------------------------------------------------------
(* Properties *)

Evaluating(q) == pc[q] \in {"retrieve_embed", "retrieve_fetch", "persist", "store_embed"}

\* the rule checks the query q made, as Seen records
RuleChecks(q) ==
    { k \in 1..Len(oplog[q]) : oplog[q][k].op = "rule_check" }

\* the rule check behind the i-th result of q
SeenOf(q, i) ==
    oplog[q][CHOOSE k \in RuleChecks(q) :
                oplog[q][k].draft = i /\ oplog[q][k].phase = "full"]

RowsOf(q) == { i \in 1..Len(db) : db[i].request_id = q }

OpsOf(q, name) == { k \in 1..Len(oplog[q]) : oplog[q][k].op = name }

EventsOf(q, type, i) ==
    { k \in 1..Len(events[q]) : events[q][k].type = type /\ events[q][k].tool_index = i }

\* C1: in every per-call result of a query a blocked call does not require
\* confirmation and has risk score 1.0, and the stream never yields
\* confirmation_required for a call for which it yielded rule_blocked.
C1_BlockedIsTerminal ==
    \A q \in Queries :
        /\ \A i \in 1..Len(results[q]) :
              results[q][i].blocked =>
                  /\ ~results[q][i].requires_confirmation
                  /\ results[q][i].risk_score = ScoreOne
        /\ \A i \in 1..idx[q] :
              EventsOf(q, "rule_blocked", i) # {}
                  => EventsOf(q, "confirmation_required", i) = {}

\* a streamed query ended with a blocked call, announced by rule_blocked, next
\* to a call that requires confirmation
C1_Witness ==
    \E q \in Queries :
        /\ pc[q] = "done" /\ req[q].stream
        /\ \E i, j \in 1..Len(results[q]) :
              /\ results[q][i].blocked
              /\ EventsOf(q, "rule_blocked", i) # {}
              /\ results[q][j].requires_confirmation
              /\ EventsOf(q, "confirmation_required", j) # {}

\* C2, as claimed: for every evaluated call, requires_confirmation is true
\* whenever its risk score is >= the confirmation threshold, or a matched rule
\* forces confirmation, or the blacklist is hit.
C2_AsClaimed ==
    \A q \in Queries : \A i \in 1..Len(results[q]) :
        ( \/ results[q][i].risk_score >= ConfirmationThreshold
          \/ SeenOf(q, i).force_confirm
          \/ SeenOf(q, i).blacklist_hit )
            => results[q][i].requires_confirmation

\* C2, amended: a call that is not blocked requires confirmation exactly when
\* its risk score is >= the confirmation threshold or a matched rule forces
\* confirmation; a blocked call (a blacklist hit, a block rule) never does.
C2_ConfirmationUnlessBlocked ==
    \A q \in Queries : \A i \in 1..Len(results[q]) :
        results[q][i].requires_confirmation
            <=> /\ ~SeenOf(q, i).blocked
                /\ \/ results[q][i].risk_score >= ConfirmationThreshold
                   \/ SeenOf(q, i).force_confirm

\* a call below the threshold that a force_confirm rule sends to confirmation,
\* after a call the blacklist blocked
C2_Witness ==
    \E q \in Queries : \E i, j \in 1..Len(results[q]) :
        /\ SeenOf(q, i).blacklist_hit /\ ~results[q][i].requires_confirmation
        /\ ~results[q][j].blocked /\ SeenOf(q, j).force_confirm
        /\ results[q][j].risk_score < ConfirmationThreshold
        /\ results[q][j].requires_confirmation

\* the blacklist is hit: some blocked tool pattern is, or is found in, the tool
\* name, or some blocked parameter pattern is found in some "name=value"
HitsBlacklist(bl, tool_name, tool_parameters) ==
    \/ \E k \in 1..Len(bl.blocked_tools) :
          \/ tool_name = bl.blocked_tools[k].tool_name
          \/ Contains(tool_name, bl.blocked_tools[k].tool_name)
    \/ \E k \in 1..Len(bl.blocked_parameters), p \in 1..Len(tool_parameters) :
          LET kv == tool_parameters[p][1] \o "=" \o tool_parameters[p][2]
              pat == bl.blocked_parameters[k].pattern
          IN  IF bl.blocked_parameters[k].case_sensitive
              THEN Contains(kv, pat) ELSE Contains(Lower(kv), Lower(pat))

\* C3: a call that hits the blacklist is reported blocked with blacklist_hit
\* and a reason, with no matched rule and no force_confirm, whatever rules
\* would match it.
C3_BlacklistPrecedence ==
    \A q \in Queries : \A k \in RuleChecks(q) :
        LET e == oplog[q][k]
            tc == tool_calls[q][e.draft]
        IN  HitsBlacklist(blacklist, tc.name, EvalArguments(tc.arguments).value)
                => /\ e.blocked /\ e.blacklist_hit
                   /\ Len(e.messages) > 0
                   /\ e.matched = <<>>
                   /\ ~e.force_confirm

\* the engine reported a blacklist hit for a call that a force_confirm rule of
\* the rule list matches
C3_Witness ==
    \E q \in Queries : \E k \in RuleChecks(q) :
        LET e == oplog[q][k]
            tc == tool_calls[q][e.draft]
        IN  /\ e.blacklist_hit /\ e.blocked /\ e.matched = <<>>
            /\ \E n \in 1..Len(rules) :
                  /\ RuleAction(rules[n]) = "force_confirm"
                  /\ _match_rule(rules[n], tc.name, EvalArguments(tc.arguments).value)

InUnit(x) == 0 <= x /\ x <= ScoreOne

\* C4: every risk score lies in [0,1]: the scorer's final score, also with rule
\* weights outside [0,1], each per-call risk_score, the stored risk_score and
\* the aggregate risk score of a query.
C4_ScoresInUnitInterval ==
    /\ \A q \in Queries :
          /\ \A k \in RuleChecks(q) : InUnit(oplog[q][k].risk_score)
          /\ \A i \in 1..Len(results[q]) : InUnit(results[q][i].risk_score)
          /\ \A k \in 1..Len(events[q]) :
                events[q][k].type = "risk_complete" => InUnit(events[q][k].risk_score)
          /\ (pc[q] = "done" /\ response[q].kind = "result")
                => InUnit(response[q].risk_score)
    /\ \A i \in 1..Len(db) : InUnit(db[i].risk_score)

\* a query returned an aggregate for a call whose weighted sum is above 1 (a
\* matched rule of weight 5.0) and was clamped to 1.0
C4_Witness ==
    \E q \in Queries :
        /\ pc[q] = "done" /\ response[q].kind = "result"
        /\ \E i \in 1..Len(results[q]) :
              /\ ~results[q][i].blocked
              /\ results[q][i].risk_score = ScoreOne
              /\ "r_log" \in { SeenOf(q, i).matched[n] : n \in 1..Len(SeenOf(q, i).matched) }

\* C5: a query that returns with tool calls returns the OR of the per-call
\* requires_confirmation flags and the maximum of the per-call risk scores.
C5_AggregateIsOrAndMax ==
    \A q \in Queries :
        (pc[q] = "done" /\ response[q].kind = "result") =>
            LET rs == response[q].tool_calls IN
            /\ rs = results[q] /\ Len(rs) = Len(tool_calls[q]) /\ Len(rs) >= 1
            /\ response[q].requires_confirmation
                  <=> \E i \in 1..Len(rs) : rs[i].requires_confirmation
            /\ \A i \in 1..Len(rs) : response[q].risk_score >= rs[i].risk_score
            /\ \E i \in 1..Len(rs) : response[q].risk_score = rs[i].risk_score
            /\ req[q].stream =>
                  \E k \in 1..Len(events[q]) :
                      /\ events[q][k].type = "complete"
                      /\ events[q][k].body = response[q]

\* a query returned a blocked call (1.0, no confirmation) followed by a call
\* of lower score that requires confirmation
C5_Witness ==
    \E q \in Queries :
        /\ pc[q] = "done" /\ response[q].kind = "result"
        /\ Len(results[q]) = 2
        /\ results[q][1].blocked /\ ~results[q][2].blocked
        /\ results[q][2].requires_confirmation
        /\ results[q][2].risk_score < results[q][1].risk_score
        /\ response[q].requires_confirmation

\* the drafts of q that parse and that the rule engine does not block
NonBlockedDrafts(q) ==
    { i \in 1..Len(tool_calls[q]) :
        LET tc == tool_calls[q][i]
            parsed == EvalArguments(tc.arguments)
        IN  parsed.ok /\ ~check_tool_call(blacklist, rules, tc.name, parsed.value).blocked }

AllDraftsParse(q) ==
    \A i \in 1..Len(tool_calls[q]) : EvalArguments(tool_calls[q][i].arguments).ok

\* C6, as claimed: a query whose drafts all parse and of which N >= 1 are not
\* blocked ends with exactly N rows of its own and N embedding stores, one per
\* row.
C6_EveryCallPersisted ==
    \A q \in Queries :
        (Ended(q) /\ AllDraftsParse(q) /\ NonBlockedDrafts(q) # {}) =>
            /\ Cardinality(RowsOf(q)) = Cardinality(NonBlockedDrafts(q))
            /\ Cardinality(OpsOf(q, "embed")) = Cardinality(NonBlockedDrafts(q))
            /\ \A r \in RowsOf(q) :
                  \E k \in OpsOf(q, "embed") : oplog[q][k].database_id = db[r].id

\* C7, as claimed: when the evaluation of one draft fails, every other draft
\* of the query is still evaluated and its result is returned.
C7_SiblingsSurviveFault ==
    \A q \in Queries :
        (Ended(q) /\ response[q].kind \in {"raised", "error"}) =>
            \A i \in (1..Len(tool_calls[q])) \ {idx[q]} :
                /\ \E k \in RuleChecks(q) :
                      oplog[q][k].draft = i /\ oplog[q][k].phase = "full"
                /\ \E j \in 1..Len(results[q]) :
                      results[q][j].tool_call_id = tool_calls[q][i].id

\* C8: within a query the component calls are made draft by draft in emitted
\* order, a draft's evaluation starting only when the one before has its
\* result, and the i-th result is the i-th draft's, whatever other queries do
\* meanwhile.
C8_DraftsInOrder ==
    \A q \in Queries :
        /\ \A k \in 1..(Len(oplog[q]) - 1) : oplog[q][k].draft <= oplog[q][k + 1].draft
        /\ \A k \in 1..Len(oplog[q]) : oplog[q][k].draft <= idx[q]
        /\ Evaluating(q) => Len(results[q]) = idx[q] - 1
        /\ \A i \in 1..Len(results[q]) :
              /\ results[q][i].tool_call_id = tool_calls[q][i].id
              /\ results[q][i].tool_name = tool_calls[q][i].name
              /\ \E k \in RuleChecks(q) :
                    oplog[q][k].draft = i /\ oplog[q][k].phase = "full"

\* two queries are both at their second draft, one about to insert its row and
\* the other about to store its embedding
C8_Witness ==
    \E q, o \in Queries :
        /\ q # o
        /\ pc[q] = "persist" /\ idx[q] = 2 /\ Len(results[q]) = 1
        /\ pc[o] = "store_embed" /\ idx[o] = 2 /\ Len(results[o]) = 1

\* C9: a query whose model response holds no tool call returns a plain answer
\* with requires_confirmation false and no tool_calls, having made no rule
\* check, no scoring, no row and no embedding store.
C9_PlainAnswerHasNoEffect ==
    \A q \in Queries :
        (Ended(q) /\ Len(tool_calls[q]) = 0) =>
            /\ pc[q] = "done"
            /\ response[q].kind = "plain"
            /\ ~response[q].requires_confirmation
            /\ response[q].tool_calls = NULL
            /\ oplog[q] = <<>>
            /\ results[q] = <<>>
            /\ RowsOf(q) = {}
            /\ req[q].stream =>
                  /\ \A k \in 1..Len(events[q]) :
                        events[q][k].type \in {"progress", "routing_complete",
                                               "model_complete", "complete"}
                  /\ \E k \in 1..Len(events[q]) :
                        /\ events[q][k].type = "complete"
                        /\ ~events[q][k].body.requires_confirmation

\* a query got a plain answer after an earlier query had stored a row
C9_Witness ==
    \E q \in Queries :
        /\ pc[q] = "done" /\ response[q].kind = "plain"
        /\ Len(db) > 0

\* C10: confirm on a request id with no row returns success=false and no
\* action and changes no row; on an existing row it stores the outcome and a
\* timestamp and returns 'execute' if confirmed, else 'cancel'.
C10_ConfirmContract ==
    [][ lastConfirm'.at # lastConfirm.at =>
          LET c == lastConfirm'
              known == \E i \in 1..Len(db) : db[i].request_id = c.request_id
          IN  /\ Len(db') = Len(db)
              /\ ~known => /\ ~c.success /\ c.action = Absent
                           /\ db' = db
              /\ known => /\ c.success
                          /\ c.action = (IF c.confirmed THEN "execute" ELSE "cancel")
                          /\ \A i \in 1..Len(db) :
                                IF db[i].request_id = c.request_id
                                THEN /\ db'[i].user_confirmed = Some(c.confirmed)
                                     /\ db'[i].confirmed_at = Some(clock)
                                     /\ db'[i].confirmed_at # NULL
                                ELSE db'[i] = db[i] ]_vars

\* a confirm of an unknown request id failed after a confirm of a stored
\* request had been recorded with 'execute'
C10_Witness ==
    /\ lastConfirm.at = 1 /\ ~lastConfirm.success /\ lastConfirm.action = Absent
    /\ \E i \in 1..Len(db) :
          /\ db[i].user_confirmed = Some(TRUE)
          /\ db[i].confirmed_at = Some(0)
          /\ db[i].request_id # lastConfirm.request_id

\* C11, as claimed: a row's confirmation outcome and timestamp, once recorded,
\* are never changed by a later confirm, and its execution outcome and
\* timestamp, once recorded, are never changed by a later execution report.
C11_MutatedAtMostOnce ==
    [][ \A i \in 1..Len(db) :
          /\ db[i].user_confirmed # NULL =>
                /\ db'[i].user_confirmed = db[i].user_confirmed
                /\ db'[i].confirmed_at = db[i].confirmed_at
          /\ db[i].execution_success # NULL =>
                /\ db'[i].execution_success = db[i].execution_success
                /\ db'[i].executed_at = db[i].executed_at ]_vars

\* C12: an execution report on a stored request sets the execution outcome,
\* result and timestamp of its row whatever user_confirmed is, and changes no
\* other field and no other row; a confirm changes only the confirmation
\* outcome, feedback and timestamp.
C12_UpdatesAreAdditive ==
    [][ /\ lastExec'.at # lastExec.at =>
              /\ Len(db') = Len(db)
              /\ \A i \in 1..Len(db) :
                    IF db[i].request_id = lastExec'.request_id
                    THEN /\ db'[i] = [db[i] EXCEPT
                                        !.execution_success = Some(lastExec'.success),
                                        !.execution_result = lastExec'.result,
                                        !.executed_at = Some(clock)]
                         /\ db'[i].user_confirmed = db[i].user_confirmed
                         /\ db'[i].user_feedback = db[i].user_feedback
                         /\ db'[i].confirmed_at = db[i].confirmed_at
                         /\ db'[i].risk_score = db[i].risk_score
                         /\ db'[i].requires_confirmation = db[i].requires_confirmation
                    ELSE db'[i] = db[i]
        /\ lastConfirm'.at # lastConfirm.at =>
              /\ Len(db') = Len(db)
              /\ \A i \in 1..Len(db) :
                    /\ db'[i].execution_success = db[i].execution_success
                    /\ db'[i].execution_result = db[i].execution_result
                    /\ db'[i].executed_at = db[i].executed_at
                    /\ db'[i].risk_score = db[i].risk_score
                    /\ db'[i].requires_confirmation = db[i].requires_confirmation ]_vars

\* an execution was reported and stored for a request the user had rejected
C12_Witness ==
    /\ lastExec.at = 1 /\ lastExec.found
    /\ \E i \in 1..Len(db) :
          /\ db[i].request_id = lastExec.request_id
          /\ db[i].user_confirmed = Some(FALSE) /\ db[i].confirmed_at = Some(0)
          /\ db[i].execution_success = Some(lastExec.success)
          /\ db[i].executed_at = Some(1)


\* the row of the service named n
ServiceRow(n) == services[RowOf(services, n)]

\* C13: with no failure recorded before them, the breaker of a service is
\* closed after fewer than failure_threshold consecutive failed reports and
\* open once failure_threshold of them have been reported.
C13_OpensAtThreshold ==
    \A n \in ServiceNames :
        (/\ Sequential
         /\ RowOf(services, n) # 0
         /\ applied[n].failed = applied[n].streak) =>
            /\ applied[n].streak < FailureThreshold =>
                  ServiceRow(n).circuit_breaker_state = "closed"
            /\ applied[n].streak = FailureThreshold =>
                  ServiceRow(n).circuit_breaker_state = "open"

C13_Witness ==
    \E n \in ServiceNames :
        /\ Sequential
        /\ RowOf(services, n) # 0
        /\ applied[n].success > 0
        /\ applied[n].failed = FailureThreshold
        /\ applied[n].streak = FailureThreshold
        /\ ServiceRow(n).failed_calls = FailureThreshold
        /\ ServiceRow(n).circuit_breaker_state = "open"

\* the slot t's probe of a service writes its result in this step
ProbeCompletes(t) ==
    /\ task[t].op = "probe" /\ task[t].pc = "probe_write"
    /\ task'[t].pc = "done"

\* the breaker of the service named n is open and its timeout has run out
TimeoutElapsed(n) ==
    /\ RowOf(services, n) # 0
    /\ ServiceRow(n).circuit_breaker_state = "open"
    /\ ServiceRow(n).circuit_breaker_opened_at # NULL
    /\ utcnow - ServiceRow(n).circuit_breaker_opened_at[1] >= TimeoutDuration

\* C14, as claimed: a health probe of a service whose breaker has been open
\* for timeout_duration leaves the breaker half_open.
C14_ProbeHalfOpens ==
    [][ \A t \in Slots :
          (ProbeCompletes(t) /\ TimeoutElapsed(task[t].arg.service_name)) =>
              services'[RowOf(services, task[t].arg.service_name)]
                  .circuit_breaker_state = "half_open" ]_vars

\* the slot t's report reads the row for update_circuit_breaker in this step
BreakerReads(t) ==
    task[t].op = "report" /\ task[t].pc = "breaker" /\ task'[t].pc # "breaker"

\* the slot t's report writes the breaker's transition in this step
BreakerWrites(t) ==
    task[t].op = "report" /\ task[t].pc = "breaker_write" /\ task'[t].pc = "done"

\* the breaker of the service named n is half_open
HalfOpen(n) ==
    RowOf(services, n) # 0 /\ ServiceRow(n).circuit_breaker_state = "half_open"

\* C15: a report that finds the breaker half_open closes it when it is a
\* success and opens it again when it is a failure, the time of opening
\* becoming the time of that write; and a breaker turns half_open only from
\* open, timeout_duration or more after the time of opening on record.
C15_HalfOpenTransitions ==
    [][ /\ \A t \in Slots :
              /\ (BreakerReads(t) /\ HalfOpen(task[t].arg.service_name)) =>
                    task'[t].pc = "breaker_write"
              /\ (BreakerWrites(t) /\ HalfOpen(task[t].arg.service_name)) =>
                    IF task[t].arg.success
                    THEN services'[RowOf(services, task[t].arg.service_name)]
                            .circuit_breaker_state = "closed"
                    ELSE /\ services'[RowOf(services, task[t].arg.service_name)]
                                .circuit_breaker_state = "open"
                         /\ services'[RowOf(services, task[t].arg.service_name)]
                                .circuit_breaker_opened_at = Some(utcnow)
        /\ \A i \in 1..Len(services) :
              (/\ services[i].circuit_breaker_state # "half_open"
               /\ services'[i].circuit_breaker_state = "half_open") =>
                  /\ services[i].circuit_breaker_state = "open"
                  /\ services[i].circuit_breaker_opened_at # NULL
                  /\ utcnow - services[i].circuit_breaker_opened_at[1] >= TimeoutDuration
      ]_vars

\* a breaker opened again from half_open, and half_open once more a timeout
\* later
C15_Witness ==
    \E i \in 1..Len(services) :
        /\ Sequential
        /\ services[i].circuit_breaker_state = "half_open"
        /\ services[i].health_status = "degraded"
        /\ services[i].circuit_breaker_opened_at # NULL
        /\ services[i].circuit_breaker_opened_at[1] >= TimeoutDuration
        /\ utcnow - services[i].circuit_breaker_opened_at[1] >= TimeoutDuration

\* the slot t holds the result of a route_tools that ran in this step
Routes(t) == task'[t].op = "route" /\ task'[t] # task[t]

\* the tool named tool_name belongs to a service whose breaker is open
OfOpenService(tool_name) ==
    \E i \in 1..Len(services) :
        /\ services[i].circuit_breaker_state = "open"
        /\ \E j \in 1..Len(services[i].tools) : ToolName(services[i].tools[j]) = tool_name

\* C16, as claimed: route_tools offers no tool of a service whose breaker is
\* open, neither as a core tool nor as a domain, explicit or preferred tool.
C16_NoToolOfOpenService ==
    [][ \A t \in Slots : Routes(t) =>
          /\ \A k \in 1..Len(task'[t].result[1].total_tools) :
                ~OfOpenService(ToolName(task'[t].result[1].total_tools[k]))
          /\ \A k \in 1..Len(task'[t].result[1].core_tools) :
                ~OfOpenService(ToolName(task'[t].result[1].core_tools[k]))
          /\ \A k \in 1..Len(task'[t].result[1].domain_tools) :
                ~OfOpenService(ToolName(task'[t].result[1].domain_tools[k])) ]_vars

\* a report for the service named n has read its row and not yet written
MetricsInFlight(n) ==
    \E t \in Slots :
        /\ task[t].op = "report" /\ task[t].pc = "metrics"
        /\ task[t].arg.service_name = n

\* C17, as claimed: once the metrics of N reports are written, in whatever
\* order their steps ran, the row counts N calls, and as many successes and
\* failures as were reported.
C17_NoLostUpdate ==
    \A n \in ServiceNames :
        (RowOf(services, n) # 0 /\ ~MetricsInFlight(n)) =>
            /\ ServiceRow(n).total_calls = applied[n].total
            /\ ServiceRow(n).success_calls = applied[n].success
            /\ ServiceRow(n).failed_calls = applied[n].failed

\* C18, as claimed: the active services never outnumber max_services.
C18_CapacityNeverExceeded ==
    Len(get_active_services(services, NULL)) <= MaxServices

\* the slot t's register_service is called in this step
RegisterCalled(t) ==
    /\ Free(t) /\ task'[t] # task[t]
    /\ task'[t].op = "register"

\* the slot t's register_service makes its INSERT in this step
RegisterInserts(t) ==
    /\ task[t].op = "register" /\ task[t].pc = "insert"
    /\ task'[t].pc = "done"

\* rows is the table with one more row, that of a service just registered
\* by reg
OneEntryAdded(rows, reg) ==
    /\ Len(rows) = Len(services) + 1
    /\ \A i \in 1..Len(services) : rows[i] = services[i]
    /\ rows[Len(rows)].service_name = reg.service_name
    /\ rows[Len(rows)].service_url = reg.service_url
    /\ rows[Len(rows)].tools = reg.tools
    /\ rows[Len(rows)].layer = reg.layer
    /\ rows[Len(rows)].domain = reg.domain
    /\ rows[Len(rows)].is_active
    /\ rows[Len(rows)].health_status = "healthy"
    /\ rows[Len(rows)].circuit_breaker_state = "closed"
    /\ rows[Len(rows)].circuit_breaker_opened_at = NULL
    /\ rows[Len(rows)].total_calls = 0
    /\ rows[Len(rows)].success_calls = 0
    /\ rows[Len(rows)].failed_calls = 0
    /\ rows[Len(rows)].avg_latency_ms = 0

\* C19: register_service returns true or false.  Called when max_services
\* are active, or making its INSERT when the name is registered, it returns
\* false and the table stays as it is; otherwise it returns true and the
\* table has one more row: active, healthy, breaker closed, metrics zero.
C19_RegisterContract ==
    [][ \A t \in Slots :
          /\ RegisterCalled(t) =>
                /\ services' = services
                /\ Len(get_active_services(services, NULL)) >= MaxServices =>
                      task'[t].pc = "done" /\ task'[t].result = Some(FALSE)
                /\ Len(get_active_services(services, NULL)) < MaxServices =>
                      task'[t].pc = "insert"
          /\ RegisterInserts(t) =>
                IF \E i \in 1..Len(services) :
                      services[i].service_name = task[t].arg.service_name
                THEN task'[t].result = Some(FALSE) /\ services' = services
                ELSE task'[t].result = Some(TRUE)
                        /\ OneEntryAdded(services', task[t].arg) ]_vars

\* a second registration of a name was turned down and the entry is the one
\* registered first
C19_Witness ==
    \E t \in Slots, u \in Slots :
        /\ task[t].op = "register" /\ task[t].pc = "done"
        /\ task[t].arg = DuplicateService
        /\ task[t].result = Some(FALSE)
        /\ task[u].op = "register" /\ task[u].pc = "done"
        /\ task[u].arg = ServicePool[1]
        /\ task[u].result = Some(TRUE)
        /\ services = << NewService(ServicePool[1]) >>

\* what the engine can hold after a complete load: the blacklist and the
\* rules of one version of the files, each replaced by its empty fallback
\* when the file could not be read
CompletePairs ==
    { << _load_blacklist(b), _load_rules(r) >> :
        b \in { Some(v[1]) : v \in ConfigVersions } \cup { NULL },
        r \in { Some(v[2]) : v \in ConfigVersions } \cup { NULL } }
    \ { << BlacklistFile, RulesFile2 >>, << BlacklistFile2, RulesFile >> }

\* the rule check e of the call tc is check_tool_call's answer under pair
CheckedUnder(e, tc, pair) ==
    /\ e.blocked = check_tool_call(pair[1], pair[2], tc.name, EvalArguments(tc.arguments).value).blocked
    /\ e.blacklist_hit = check_tool_call(pair[1], pair[2], tc.name, EvalArguments(tc.arguments).value).blacklist_hit
    /\ e.force_confirm = check_tool_call(pair[1], pair[2], tc.name, EvalArguments(tc.arguments).value).force_confirm
    /\ e.messages = check_tool_call(pair[1], pair[2], tc.name, EvalArguments(tc.arguments).value).messages

\* C20: the engine always holds the blacklist and the rules of one load, and
\* every rule check of a query, reloads running in between the steps of the
\* queries, is check_tool_call's answer under such a pair: never under the
\* blacklist of one version of the files and the rules of the other.
C20_ReloadIsAtomic ==
    /\ << blacklist, rules >> \in CompletePairs
    /\ \A q \in Queries : \A k \in RuleChecks(q) :
          \E pair \in CompletePairs :
              CheckedUnder(oplog[q][k], tool_calls[q][oplog[q][k].draft], pair)

\* while a query whose read_file was checked under the files before the edit
\* (the rule r_neg matched) is still under way, the format_disk of another
\* is checked under the files after it (blocked by the rule r_format, no
\* blacklist hit)
C20_Witness ==
    \E q \in Queries, o \in Queries :
        \E k \in RuleChecks(q), j \in RuleChecks(o) :
            /\ ~Ended(q)
            /\ tool_calls[q][oplog[q][k].draft].name = "read_file"
            /\ oplog[q][k].matched = << "r_neg" >>
            /\ tool_calls[o][oplog[o][j].draft].name = "format_disk"
            /\ oplog[o][j].blocked /\ ~oplog[o][j].blacklist_hit
            /\ oplog[o][j].matched = << "r_format" >>
            /\ << blacklist, rules >> = << BlacklistFile2, RulesFile2 >>

\* a call of op was made in this step
RuleCall(op) == task'[1].op = op /\ (task'[1] # task[1] \/ rules' # rules)

DistinctIds(rs) == \A i, j \in 1..Len(rs) : rs[i].rule_id = rs[j].rule_id => i = j

HasRule(rs, rule_id) == \E i \in 1..Len(rs) : rs[i].rule_id = rule_id

\* C21: add_custom_rule returns false and leaves the rules as they are for a
\* rule without rule_id or condition or with the id of a rule of the list,
\* and otherwise returns true and appends the rule; remove_rule returns true
\* exactly when the list held a rule of that id, which is then gone while
\* the others stay in order; and distinct ids stay distinct.
C21_AddAndRemove ==
    [][ /\ RuleCall("add_rule") =>
              IF \/ task'[1].arg.rule_id = Absent
                 \/ task'[1].arg.condition = NULL
                 \/ HasRule(rules, task'[1].arg.rule_id)
              THEN task'[1].result = Some(FALSE) /\ rules' = rules
              ELSE task'[1].result = Some(TRUE) /\ rules' = Append(rules, task'[1].arg)
        /\ RuleCall("remove_rule") =>
              /\ task'[1].result = Some(HasRule(rules, task'[1].arg))
              /\ ~HasRule(rules', task'[1].arg)
              /\ \A i \in 1..Len(rules) :
                    rules[i].rule_id # task'[1].arg =>
                        \E j \in 1..Len(rules') : rules'[j] = rules[i]
              /\ \A j, k \in 1..Len(rules') : j < k =>
                    \E i, n \in 1..Len(rules) :
                        i < n /\ rules[i] = rules'[j] /\ rules[n] = rules'[k]
        /\ DistinctIds(rules) => DistinctIds(rules') ]_vars

\* the rule under the id r_force was turned down, the rules file's r_force
\* being in the list after a rule was added and another removed
C21_Witness ==
    /\ task[1].op = "add_rule"
    /\ task[1].arg.rule_id = "r_force" /\ task[1].arg.name = "another rule"
    /\ task[1].result = Some(FALSE)
    /\ RuleIds(rules) = << "r_force", "r_block", "r_log", "r_neg", "r_new" >>


\* the slot holds the result of a route_tools over the registry as it is
Routed == task[1].op = "route" /\ task[1].pc = "done" /\ task[1].result # NULL

\* the tools of the active services of a layer
ExposedBy(layer) ==
    UNION { { services[i].tools[j] : j \in 1..Len(services[i].tools) } :
              i \in { n \in 1..Len(services) :
                        services[n].is_active /\ services[n].layer = layer } }

\* the entries of a tool list
Entries(tools) == { tools[k] : k \in 1..Len(tools) }

\* the names of the entries of a tool list
NamesIn(tools) == { ToolName(tools[k]) : k \in 1..Len(tools) }

\* C22, as claimed: the routed tool list holds every tool of every active
\* core-layer service, itself or, a name being listed once, an entry of its
\* name, whatever the question, the explicit tools and the user id.
C22_EveryCoreTool ==
    Routed =>
        \A x \in ExposedBy("L1") :
            \/ x \in Entries(task[1].result[1].total_tools)
            \/ /\ ToolName(x) # Absent
               /\ ToolName(x) \in NamesIn(task[1].result[1].total_tools)

\* C22, amended: core_tools holds every tool of every active core-layer
\* service, and the routed tool list holds, for every such tool that has a
\* name, a core tool of that name; a core tool with no name is in no routed
\* tool list.
C22_EveryNamedCoreTool ==
    Routed =>
        /\ ExposedBy("L1") = Entries(task[1].result[1].core_tools)
        /\ \A x \in ExposedBy("L1") :
              IF ToolName(x) = Absent
              THEN x \notin Entries(task[1].result[1].total_tools)
              ELSE \E e \in Entries(task[1].result[1].total_tools) :
                      ToolName(e) = ToolName(x) /\ e \in ExposedBy("L1")

\* two core services, one of them with a tool that has no name, routed with
\* explicit tools and a user id
C22_Witness ==
    /\ Routed
    /\ task[1].arg.explicit_tools # NULL /\ task[1].arg.user_id # NULL
    /\ \E x, y \in ExposedBy("L1") : ToolName(x) = Absent /\ ToolName(y) = "get_time"
    /\ "get_time" \in NamesIn(task[1].result[1].total_tools)


\* the first tool of a name in a tool list
FirstNamed(tools, name) ==
    tools[CHOOSE k \in 1..Len(tools) :
            /\ ToolName(tools[k]) = name
            /\ \A h \in 1..(k - 1) : ToolName(tools[h]) # name]

\* the tools of the active domain-layer services of the domains detected in
\* the routed question
OfDetectedDomains ==
    UNION { { services[i].tools[j] : j \in 1..Len(services[i].tools) } :
              i \in { n \in 1..Len(services) :
                        /\ services[n].is_active /\ services[n].layer = "L2"
                        /\ \E d \in 1..Len(_detect_intent(task[1].arg.user_question)) :
                              services[n].domain
                                = Some(_detect_intent(task[1].arg.user_question)[d]) } }

\* C23: the routed tool list holds no two entries of one function name; the
\* entry kept for a name is the first of that name among the core tools
\* followed by the domain or explicit tools followed by the user's preferred
\* tools, so a core tool wins over any tool of its name, and a tool of a
\* detected domain wins over a preferred tool of its name.
C23_FirstSeenWins ==
    Routed =>
        /\ \A i, j \in 1..Len(task[1].result[1].total_tools) :
              i # j => ToolName(task[1].result[1].total_tools[i])
                        # ToolName(task[1].result[1].total_tools[j])
        /\ \A e \in Entries(task[1].result[1].total_tools) :
              /\ e = FirstNamed(task[1].result[1].core_tools
                                  \o task[1].result[1].domain_tools, ToolName(e))
              /\ ToolName(e) \in NamesIn(task[1].result[1].core_tools)
                    => e \in ExposedBy("L1")
              /\ ( /\ task[1].arg.explicit_tools = NULL
                   /\ ToolName(e) \notin NamesIn(task[1].result[1].core_tools)
                   /\ ToolName(e) \in { ToolName(x) : x \in OfDetectedDomains } )
                    => e \in OfDetectedDomains

\* a core service and a domain service export read_file, the mail service
\* registered before it and the weather service export send_mail, which is
\* a tool of the detected weather domain and a preferred tool of the user
C23_Witness ==
    /\ Routed
    /\ task[1].arg.explicit_tools = NULL /\ task[1].arg.user_id = Some("alice")
    /\ Len(services) = 3
    /\ services[1].service_name = "mail" /\ services[2].service_name = "sky"
    /\ services[3].layer = "L1"
    /\ task[1].result[1].detected_intents = << "weather" , "email" >>
    /\ Len(SelectSeq(task[1].result[1].domain_tools,
                     LAMBDA x : ToolName(x) = "send_mail")) >= 3
    /\ Len(SelectSeq(task[1].result[1].core_tools \o task[1].result[1].domain_tools,
                     LAMBDA x : ToolName(x) = "read_file")) >= 2


\* the names that the active services of any layer export
ExportedNames ==
    { ToolName(x) : x \in ExposedBy("L1") \cup ExposedBy("L2") \cup ExposedBy("L3") }
        \ { Absent }

\* the names in a list of names, None being the empty list
NamedBy(tool_names) ==
    IF tool_names = NULL THEN {} ELSE { tool_names[1][k] : k \in 1..Len(tool_names[1]) }

\* C24, as claimed: the routed tool list holds, by name, the tools of the
\* domain-layer services of every domain detected in the question, and every
\* explicitly named tool that an active service exports, and, a user id
\* being given, every preferred tool of the user that an active service
\* exports.
C24_DomainExplicitPreferred ==
    Routed =>
        /\ { ToolName(x) : x \in OfDetectedDomains } \ { Absent }
              \subseteq NamesIn(task[1].result[1].total_tools)
        /\ NamedBy(task[1].arg.explicit_tools) \cap ExportedNames
              \subseteq NamesIn(task[1].result[1].total_tools)
        /\ task[1].arg.user_id # NULL =>
              NamedBy(get_user_preference(task[1].arg.user_id[1])) \cap ExportedNames
                  \subseteq NamesIn(task[1].result[1].total_tools)


\* the step is the end of a retrieval of q that failed
RetrievalFails(q) ==
    /\ Len(oplog'[q]) >= Len(oplog[q]) + 3
    /\ oplog'[q][Len(oplog[q]) + 1].op = "retrieve_failed"

\* the score of a call with no history: the historical sub-score is 0.3
ScoreWithoutHistory(tool_name, tool_parameters, rule_result) ==
    Clamp(WeightedSum(_calculate_base_risk(tool_name),
                      _calculate_parameter_risk(tool_parameters),
                      NoHistoryRisk, _calculate_rule_risk(rule_result)))

\* what the step that ends a failed retrieval of q leaves behind: the
\* decision on the draft, taken on no history
DegradedTo(q, tc, tool_parameters, rule_result, decision) ==
    /\ decision.op = "rule_check" /\ decision.draft = idx[q]
    /\ decision.blocked = rule_result.blocked
    /\ decision.scored = ~rule_result.blocked
    /\ decision.scored =>
          decision.risk_score = ScoreWithoutHistory(tc.name, tool_parameters, rule_result)
    /\ loc[q].phase = "stream" =>
          \E k \in (Len(events[q]) + 1)..Len(events'[q]) :
              /\ events'[q][k].type = "rag_complete"
              /\ events'[q][k].tool_index = idx[q]
              /\ events'[q][k].similar_cases_count = 0
              /\ events'[q][k].has_history = FALSE
    /\ loc[q].phase = "full" =>
          IF rule_result.blocked
          THEN /\ Len(results'[q]) = Len(results[q]) + 1
               /\ results'[q][Len(results'[q])].tool_call_id = tc.id
               /\ results'[q][Len(results'[q])].blocked
               /\ pc'[q] # "failed"
          ELSE /\ pc'[q] = "persist"
               /\ loc'[q].result.tool_call_id = tc.id
               /\ loc'[q].result.similar_case_count = 0
               /\ loc'[q].result.historical_insights = <<>>
               /\ loc'[q].result.risk_score = decision.risk_score
               /\ loc'[q].row.similar_history_ids = <<>>

\* C25: when the embedding call, the similarity search or the record fetch
\* of retrieve_similar_cases fails, the cases are the empty list and nothing
\* is raised: the analysis has has_history false and indication "unknown",
\* the call is scored with historical sub-score 0.3, and the evaluation goes
\* on to a decision on the call.
C25_RetrievalFailureDegrades ==
    [][ \A q \in Queries : RetrievalFails(q) =>
            /\ analyze_historical_feedback(<<>>).has_history = FALSE
            /\ analyze_historical_feedback(<<>>).risk_indication = "unknown"
            /\ DegradedTo(q, tool_calls[q][idx[q]], loc[q].tool_parameters,
                          check_tool_call(blacklist, rules, tool_calls[q][idx[q]].name,
                                          loc[q].tool_parameters),
                          oplog'[q][Len(oplog[q]) + 3]) ]_vars

\* the stage of the failed retrieval whose decision is the k-th op of q
FailedAt(q, k) ==
    IF k > 2 /\ oplog[q][k - 2].op = "retrieve_failed" THEN oplog[q][k - 2].stage
    ELSE Absent

\* each stage has failed once, the fetch for a streamed call that was scored
C25_Witness ==
    /\ \E q \in Queries : \E k \in 1..Len(oplog[q]) :
          FailedAt(q, k) = "fetch" /\ oplog[q][k].phase = "stream" /\ oplog[q][k].scored
    /\ \E q \in Queries : \E k \in 1..Len(oplog[q]) : FailedAt(q, k) = "embedding"
    /\ \E q \in Queries : \E k \in 1..Len(oplog[q]) : FailedAt(q, k) = "search"


\* the slot holds a call of assess_tool_risk and what it returned
Assessed == task[1].op = "assess" /\ task[1].pc = "done"

\* C26: the scorer requires confirmation exactly when the final score is at
\* least the confirmation threshold; the level is low below the confirmation
\* threshold, medium from it and high from the high-risk threshold, so that
\* the level is low exactly when no confirmation is required.
C26_ConfirmationAndLevel ==
    Assessed =>
        /\ task[1].result[1].risk_score \in 0..ScoreOne
        /\ task[1].result[1].requires_confirmation
              <=> task[1].result[1].risk_score >= ConfirmationThreshold
        /\ task[1].result[1].risk_level = "low"
              <=> task[1].result[1].risk_score < ConfirmationThreshold
        /\ task[1].result[1].risk_level = "medium"
              <=> /\ task[1].result[1].risk_score >= ConfirmationThreshold
                  /\ task[1].result[1].risk_score < HighRiskThreshold
        /\ task[1].result[1].risk_level = "high"
              <=> task[1].result[1].risk_score >= HighRiskThreshold
        /\ ConfirmationThreshold <= HighRiskThreshold =>
              (task[1].result[1].risk_level = "low"
                  <=> ~task[1].result[1].requires_confirmation)

\* a call scored exactly at the confirmation threshold
C26_Witness ==
    /\ Assessed
    /\ task[1].result[1].risk_score = ConfirmationThreshold
    /\ task[1].result[1].risk_level = "medium"
    /\ task[1].result[1].requires_confirmation


\* the call of the scenario: delete_file on /tmp/x, no history, no rule matched
DeleteTmpFile ==
    /\ Assessed
    /\ task[1].arg.tool_name = "delete_file"
    /\ task[1].arg.tool_parameters = << <<"path", "/tmp/x">> >>
    /\ task[1].arg.historical_analysis = NoHistoryAnalysis
    /\ task[1].arg.rule_result = EmptyRuleResult

\* C27: with the weights 0.3/0.2/0.3/0.2 and the thresholds 0.6/0.8,
\* delete_file with {path: "/tmp/x"}, no history and no matched rule scores
\* base 0.9, parameter 0, historical 0.3 and rule 0, 0.36 in all: the level
\* is low and no confirmation is required.
C27_DeleteFileScenario ==
    DeleteTmpFile =>
        /\ << WeightBase, WeightParam, WeightHistory, WeightRule >> = << 3, 2, 3, 2 >>
        /\ << ConfirmationThreshold, HighRiskThreshold >> = << 600, 800 >>
        /\ task[1].result[1].breakdown =
              [base_risk |-> 90, parameter_risk |-> 0, historical_risk |-> 30,
               rule_risk |-> 0]
        /\ task[1].result[1].risk_score = 360
        /\ task[1].result[1].risk_level = "low"
        /\ ~task[1].result[1].requires_confirmation

\* the scenario's call was scored
C27_Witness == DeleteTmpFile /\ task[1].result[1].risk_score = 360


\* stop() has returned
Stopped == task[2].op = "stop" /\ task[2].pc = "done"

\* the loop task starts the probes of a cycle in this step
IssuesProbes ==
    /\ task'[1].op = "health_loop" /\ task'[1].pc = "gather"
    /\ task[1].pc # "gather"

\* the active services
ActiveNames ==
    { services[i].service_name : i \in { n \in 1..Len(services) : services[n].is_active } }

\* C28: once stop() has returned the loop task has ended, none of its probes
\* is in flight and nothing of it moves again; the loop ends only when it was
\* cancelled, so after a cycle in which a probe failed or an exception was
\* raised the loop sleeps again; and a cycle probes every active service,
\* whatever happened in the cycles before.
C28_LoopStopsOnlyWhenStopped ==
    [][ /\ Stopped' =>
            /\ task'[1].op = "health_loop" =>
                  task'[1].pc = "done" /\ InFlight(task'[1].seen) = {}
            /\ Stopped => task'[1] = task[1] /\ services' = services
        /\ (task[1].pc # "done" /\ task'[1].pc = "done") => task[1].arg.must_cancel
        /\ ( /\ task[1].op = "health_loop" /\ ~task[1].arg.must_cancel
             /\ task'[1].arg.failures > task[1].arg.failures
             /\ InFlight(task'[1].seen) = {} )
              => task'[1].pc \in { "sleep", "gather" }
        /\ IssuesProbes =>
              /\ { task'[1].seen[k].service_name : k \in 1..Len(task'[1].seen) }
                    = ActiveNames
              /\ InFlight(task'[1].seen) = 1..Len(task'[1].seen)
              /\ Len(task'[1].seen) = Cardinality(ActiveNames) ]_vars

\* stop() returned after it cancelled the loop in its second cycle with a
\* probe in flight, the first cycle having seen a failure
C28_Witness ==
    /\ Stopped
    /\ task[1].op = "health_loop" /\ task[1].pc = "done"
    /\ task[1].arg.cycle = 2 /\ task[1].arg.failures > 0
    /\ Len(task[1].seen) = 2
    /\ task[1].seen[1].result = "cancelled"
    /\ task[1].seen[2].result = "True"


\* the edges of the breaker
BreakerEdges ==
    { << "closed", "open" >>, << "open", "half_open" >>,
      << "half_open", "closed" >>, << "half_open", "open" >> }

\* C29, as claimed: the breaker of a service changes only along closed->open,
\* open->half_open, half_open->closed and half_open->open, however the
\* reports of call outcomes and the probes interleave; and a write made
\* while the breaker is open and timeout_duration has not elapsed since it
\* opened leaves it open.
C29_OnlyBreakerEdges ==
    [][ \A i \in 1..Len(services) :
          /\ services'[i].circuit_breaker_state # services[i].circuit_breaker_state =>
                << services[i].circuit_breaker_state,
                   services'[i].circuit_breaker_state >> \in BreakerEdges
          /\ ( /\ services[i].circuit_breaker_state = "open"
               /\ services[i].circuit_breaker_opened_at # NULL
               /\ utcnow - services[i].circuit_breaker_opened_at[1] < TimeoutDuration )
                => services'[i].circuit_breaker_state = "open" ]_vars


\* the slot holds a call of check_tool_call and what it returned
Checked == task[1].op = "check" /\ task[1].pc = "done"

\* the rule has a tool-name pattern
HasNamePattern(rule) == rule.condition.tool_name_pattern \notin { Absent, "" }

\* the rule matches the call: its tool-name pattern, if it has one, is found
\* in the name whatever the case, and each of its parameter checks names a
\* parameter of the call in whose value its pattern is found whatever the case
Matches(rule, tool_name, tool_parameters) ==
    /\ HasNamePattern(rule) =>
          Contains(Lower(tool_name), Lower(rule.condition.tool_name_pattern))
    /\ \A c \in 1..Len(rule.condition.parameter_check) :
          \E p \in 1..Len(tool_parameters) :
              /\ tool_parameters[p][1] = rule.condition.parameter_check[c][1]
              /\ Contains(Lower(tool_parameters[p][2]),
                          Lower(rule.condition.parameter_check[c][2]))

\* the actions of the rules listed
ActionsOf(matched_rules) ==
    { IF matched_rules[k].action = Absent THEN "log" ELSE matched_rules[k].action :
        k \in 1..Len(matched_rules) }

\* C30: when the blacklist is not hit, matched_rules lists exactly the rules
\* that match, in the order of their definition, none being skipped after a
\* block; blocked is true exactly when a matched rule has action block and
\* force_confirm exactly when one has action force_confirm, and both can be
\* true together.
C30_RulesAccumulate ==
    (Checked /\ ~task[1].result[1].blacklist_hit) =>
        /\ task[1].result[1].matched_rules =
              SelectSeq(task[1].arg.rules,
                        LAMBDA rule : Matches(rule, task[1].arg.tool_name,
                                              task[1].arg.tool_parameters))
        /\ task[1].result[1].blocked
              <=> "block" \in ActionsOf(task[1].result[1].matched_rules)
        /\ task[1].result[1].force_confirm
              <=> "force_confirm" \in ActionsOf(task[1].result[1].matched_rules)
        /\ Len(task[1].result[1].messages) = Len(task[1].result[1].matched_rules)

\* a call that matches a force_confirm rule, a block rule defined after it
\* and a log rule defined after both, and misses a rule for a parameter it
\* lacks
C30_Witness ==
    /\ Checked /\ ~task[1].result[1].blacklist_hit
    /\ task[1].arg.tool_name = "Drop_Delete_Read"
    /\ task[1].arg.tool_parameters = << <<"path", "/tmp/x">> >>
    /\ [k \in 1..Len(task[1].result[1].matched_rules) |->
          task[1].result[1].matched_rules[k].rule_id]
          = << "r_force", "r_block", "r_neg" >>
    /\ task[1].result[1].blocked /\ task[1].result[1].force_confirm


\* the retrievals that returned
Retrieved == { t \in Slots : task[t].op = "retrieve" /\ task[t].pc = "done" }

\* the ids the index search of the retrieval returned
SearchedIds(t) == { task[t].seen[j][1] : j \in 1..Len(task[t].seen) }

\* the similarity of a stored question to the one asked, from the two
\* embeddings
SimilarityTo(user_question, history) ==
    Similarity(L2Distance(get_embedding(history.user_question),
                          get_embedding(user_question)))

\* C31: retrieve_similar_cases returns at most top_k cases, by non-increasing
\* similarity, each at or above similarity_threshold and each the stored row
\* of an id the index search returned; with a user id given, every case is
\* of that user
C31_RetrievedCases ==
    \A t \in Retrieved :
        LET cases == task[t].result
        IN  /\ Len(cases) <= TopK
            /\ Len(task[t].seen) <= TopK * 2
            /\ \A k \in 1..Len(cases) :
                  /\ k < Len(cases)
                        => cases[k].similarity_score >= cases[k + 1].similarity_score
                  /\ cases[k].similarity_score >= SimilarityThreshold
                  /\ cases[k].similarity_score
                        = SimilarityTo(task[t].arg.user_question, cases[k].history)
                  /\ cases[k].history.id \in SearchedIds(t)
                  /\ \E i \in 1..Len(db) : db[i] = cases[k].history
                  /\ task[t].arg.user_id # ""
                        => cases[k].history.user_id = task[t].arg.user_id

\* more than top_k stored calls of the user are similar enough, calls of
\* the other user are as near, the search reached its limit, and top_k
\* cases of two similarities came back
C31_Witness ==
    \E t \in Retrieved :
        /\ task[t].arg.user_id = "alice"
        /\ Len(task[t].seen) = TopK * 2
        /\ Len(db) > TopK * 2
        /\ \E j \in 1..Len(task[t].seen) :
              /\ task[t].seen[j][2] = 0
              /\ \E i \in 1..Len(db) :
                    db[i].id = task[t].seen[j][1] /\ db[i].user_id = "bob"
        /\ Len(task[t].result) = TopK
        /\ task[t].result[1].similarity_score > task[t].result[TopK].similarity_score


\* the sensitive keywords found in the name or in the value of some parameter
KeywordsFound(parameters) ==
    { i \in 1..Len(sensitive_patterns) :
        \E k \in 1..Len(parameters) :
            \/ Contains(Lower(parameters[k][1]), sensitive_patterns[i])
            \/ Contains(Lower(parameters[k][2]), sensitive_patterns[i]) }

\* C32: the parameter sub-score is one increment for each distinct sensitive
\* keyword found in any parameter name or value (two keywords in one
\* parameter are two increments), capped at 1.0, and 0 without parameters
C32_IncrementPerKeyword ==
    Assessed =>
        task[1].result[1].breakdown.parameter_risk =
            IF Len(task[1].arg.tool_parameters) = 0 THEN 0
            ELSE Min2(Cardinality(KeywordsFound(task[1].arg.tool_parameters))
                        * ParamIncrement, 100)


\* the place of an event type in the evaluation of one call
StageOf(type) ==
    CASE type = "rag_retrieval" -> 1
      [] type = "rag_complete" -> 2
      [] type = "rule_check" -> 3
      [] type \in {"rule_blocked", "rule_complete"} -> 4
      [] type = "risk_assessment" -> 5
      [] type = "risk_complete" -> 6
      [] type = "confirmation_required" -> 7
      [] OTHER -> 0

\* the positions in the stream of q of the evaluation events of call i
StagesOf(q, i) ==
    SelectIdx(events[q], LAMBDA e : e.tool_index = i /\ StageOf(e.type) > 0, 1)

TerminalEvents(q) ==
    { k \in 1..Len(events[q]) : events[q][k].type \in {"complete", "error"} }

\* C33: in a stream the events of each call come in the order rag_retrieval,
\* rag_complete, rule_check, rule_blocked or rule_complete, risk_assessment,
\* risk_complete, and confirmation_required exactly when the risk_complete
\* event requires confirmation; nothing of a call follows its rule_blocked;
\* no event of call i comes after one of call i+1; the stream has at most
\* one 'complete' or 'error' event, nothing after it, and exactly one when
\* it has ended
C33_StreamOrder ==
    \A q \in Queries :
        LET evs == events[q]
        IN  /\ \A i \in 1..MaxCalls :
                  LET at == StagesOf(q, i)
                  IN  \A k \in 1..Len(at) :
                          /\ StageOf(evs[at[k]].type) = k
                          /\ k > 1 => at[k] = at[k - 1] + 1
                          /\ k > 1 => evs[at[k - 1]].type # "rule_blocked"
                          /\ evs[at[k]].type = "confirmation_required"
                                => evs[at[k - 1]].requires_confirmation
                          /\ ( evs[at[k]].type = "risk_complete"
                               /\ evs[at[k]].requires_confirmation )
                                => /\ k < Len(at)
                                   /\ evs[at[k + 1]].type = "confirmation_required"
            /\ \A a, b \in 1..Len(evs) :
                  (a < b /\ evs[a].tool_index > 0 /\ evs[b].tool_index > 0)
                      => evs[a].tool_index <= evs[b].tool_index
            /\ \A k \in TerminalEvents(q) : k = Len(evs)
            /\ (pc[q] \in {"done", "failed"} /\ req[q].stream)
                  => TerminalEvents(q) = { Len(evs) } /\ Len(evs) > 0

\* a stream of two calls ended with 'complete': the first call was blocked
\* at the rule check, the second one went on to confirmation_required
C33_Witness ==
    \E q \in Queries :
        /\ pc[q] = "done" /\ req[q].stream
        /\ events[q][Len(events[q])].type = "complete"
        /\ \E k \in 1..Len(events[q]) :
              events[q][k].type = "rule_blocked" /\ events[q][k].tool_index = 1
        /\ \E k \in 1..Len(events[q]) :
              events[q][k].type = "confirmation_required" /\ events[q][k].tool_index = 2


\* the drafts of q that the rule engine blocks
BlockedDrafts(q) ==
    { i \in 1..Len(tool_calls[q]) :
        LET tc == tool_calls[q][i]
            parsed == EvalArguments(tc.arguments)
        IN  parsed.ok /\ check_tool_call(blacklist, rules, tc.name, parsed.value).blocked }

\* every draft of q was blocked
AllBlocked(q) ==
    /\ pc[q] = "done"
    /\ Len(tool_calls[q]) > 0
    /\ BlockedDrafts(q) = 1..Len(tool_calls[q])

\* C34: a call blocked by the blacklist or by a block rule is never stored:
\* no INSERT is made for it, every stored row has blacklist_hit = false, and
\* a confirmation of a query whose calls were all blocked fails with "not
\* found" and never returns 'execute'
C34_BlockedLeavesNoRecord ==
    /\ \A i \in 1..Len(db) : ~db[i].blacklist_hit
    /\ \A q \in Queries :
          /\ tool_calls[q] # NULL =>
                \A i \in BlockedDrafts(q) :
                    \A k \in 1..Len(oplog[q]) :
                        oplog[q][k].draft = i
                            => oplog[q][k].op \notin {"persist", "persist_failed", "embed"}
          /\ (tool_calls[q] # NULL /\ AllBlocked(q)) =>
                /\ RowsOf(q) = {}
                /\ lastConfirm.request_id = q =>
                      ~lastConfirm.success /\ lastConfirm.action = Absent

\* a query of two calls, one stopped by the blacklist and one by a block
\* rule, has ended, and the client's confirmation of it was refused
C34_Witness ==
    \E q \in Queries :
        /\ tool_calls[q] # NULL /\ AllBlocked(q)
        /\ Len(tool_calls[q]) = 2
        /\ results[q][1].blocked /\ results[q][2].blocked
        /\ tool_calls[q][1].name = "format_disk" /\ tool_calls[q][2].name = "drop_table"
        /\ lastConfirm.request_id = q /\ lastConfirm.confirmed
        /\ ~lastConfirm.success /\ lastConfirm.at >= 0


\* the stream of q announced call i: its rule_blocked or its risk_complete
\* event
Announced(q, i) ==
    EventsOf(q, "rule_blocked", i) \cup EventsOf(q, "risk_complete", i)

\* the entry of call i in the 'complete' event of the stream of q agrees with
\* the announcement at position k of the stream
AgreesWith(q, i, k) ==
    LET e == events[q][k]
        entry == events[q][Len(events[q])].body.tool_calls[i]
    IN  IF e.type = "rule_blocked" THEN entry.blocked
        ELSE /\ ~entry.blocked
             /\ entry.risk_score = e.risk_score
             /\ entry.requires_confirmation = e.requires_confirmation

\* C35: what the progress events of a stream announce for a call (blocked,
\* risk score, requires_confirmation) is what the call's entry in the final
\* 'complete' event says, whatever other tasks do between the two
\* evaluations, and also for a call whose arguments cannot be parsed
C35_AnnouncedIsFinal ==
    \A q \in Queries :
        (pc[q] = "done" /\ req[q].stream) =>
            \A i \in 1..Len(tool_calls[q]) :
                \A k \in Announced(q, i) :
                    /\ events[q][Len(events[q])].type = "complete"
                          => AgreesWith(q, i, k)
                    /\ ~EvalArguments(tool_calls[q][i].arguments).ok
                          => events[q][Len(events[q])].type = "complete"


\* the call scored matched no rule and hit no blacklist entry
NoRuleMatched ==
    /\ Assessed
    /\ ~task[1].arg.rule_result.blacklist_hit
    /\ Len(task[1].arg.rule_result.matched_rules) = 0

\* C36: with the weights 0.3/0.2/0.3/0.2 and the thresholds 0.6/0.8, a call
\* that matches no rule and has no sensitive keyword in its parameters scores
\* at most 0.54 and never requires confirmation, whatever the tool (no table
\* entry is above 1.0) and the history; and without a matched rule no call
\* scores above 0.74 or reaches the level high
C36_NoRuleNoConfirmation ==
    /\ << WeightBase, WeightParam, WeightHistory, WeightRule >> = << 3, 2, 3, 2 >>
    /\ << ConfirmationThreshold, HighRiskThreshold >> = << 600, 800 >>
    /\ DefaultBaseRisk <= 100
    /\ \A e \in 1..Len(tool_risk_levels) : tool_risk_levels[e][2] <= 100
    /\ NoRuleMatched =>
          /\ task[1].result[1].risk_score <= 740
          /\ task[1].result[1].risk_level # "high"
          /\ KeywordsFound(task[1].arg.tool_parameters) = {} =>
                /\ task[1].result[1].risk_score <= 540
                /\ ~task[1].result[1].requires_confirmation
                /\ task[1].result[1].risk_level = "low"

\* the most destructive tool with a high historical indication, no rule and
\* no sensitive parameter: 0.54, no confirmation
C36_Witness ==
    /\ NoRuleMatched
    /\ task[1].arg.tool_name = "format_disk"
    /\ task[1].arg.historical_analysis.has_history
    /\ task[1].arg.historical_analysis.risk_indication = "high"
    /\ task[1].arg.tool_parameters = << <<"path", "/tmp/x">> >>
    /\ task[1].result[1].breakdown =
          [base_risk |-> 100, parameter_risk |-> 0, historical_risk |-> 80,
           rule_risk |-> 0]
    /\ task[1].result[1].risk_score = 540
    /\ ~task[1].result[1].requires_confirmation


\* the users who may call confirm: the known ones and a stranger
Callers == Users \cup {"mallory"}

\* C37: confirm does not depend on its user_id: whoever of the callers had
\* sent the same confirm in the same state, the rows afterwards and the
\* answer would be those of the call that was made; and a confirm by another
\* user than the one who issued the query is stored and answered 'execute'
\* or 'cancel' like the issuer's own
C37_ConfirmIgnoresUser ==
    [][ lastConfirm'.at # lastConfirm.at =>
          LET c == lastConfirm'
          IN  /\ \A u \in Callers :
                    confirm_tool_call(db, clock, c.request_id, u, c.confirmed, NULL)
                        = << db', [success |-> c.success, action |-> c.action] >>
              /\ \A i \in 1..Len(db) :
                    (db[i].request_id = c.request_id /\ db[i].user_id # c.user_id)
                        => /\ c.success
                           /\ c.action = (IF c.confirmed THEN "execute" ELSE "cancel")
                           /\ db'[i].user_confirmed = Some(c.confirmed) ]_vars

\* bob confirmed a call of alice's query and was told to execute it
C37_Witness ==
    /\ lastConfirm.user_id = "bob"
    /\ lastConfirm.confirmed /\ lastConfirm.success
    /\ lastConfirm.action = "execute"
    /\ \E i \in 1..Len(db) :
          /\ db[i].request_id = lastConfirm.request_id
          /\ db[i].user_id = "alice"
          /\ db[i].user_confirmed = Some(TRUE)
          /\ db[i].confirmed_at = Some(lastConfirm.at)


\* the last call on the engine was a reload
Reloaded == task[1].op = "reload"

\* the calls a client may have checked
CheckedCalls == CheckedTools \X CheckedParameters

\* the rules some add_custom_rule call put on the list
AddedRules(rs) ==
    { i \in 1..Len(rs) : rs[i] \in CustomRules }

\* C38: a reload whose file cannot be read leaves the empty blacklist or no
\* rule, never the previous definitions: after it no call hits the
\* blacklist (no rule matches); with both files unreadable every call that
\* was blocked before is no longer blocked; and after any reload the rules
\* are those of the file, none of the rules added at runtime
C38_FailedReloadEmpties ==
    Reloaded =>
        /\ task[1].arg.blacklist_file = NULL =>
              /\ blacklist = EmptyBlacklist
              /\ \A c \in CheckedCalls :
                    ~check_tool_call(blacklist, rules, c[1], c[2]).blacklist_hit
        /\ task[1].arg.rules_file = NULL =>
              /\ rules = <<>>
              /\ \A c \in CheckedCalls :
                    check_tool_call(blacklist, rules, c[1], c[2]).matched_rules = <<>>
        /\ (task[1].arg.blacklist_file = NULL /\ task[1].arg.rules_file = NULL) =>
              \A c \in CheckedCalls : ~check_tool_call(blacklist, rules, c[1], c[2]).blocked
        /\ task[1].arg.rules_file # NULL => rules = task[1].arg.rules_file[1]
        /\ AddedRules(rules) = {}

\* an engine with the files' definitions and a block rule added at runtime
\* was reloaded while neither file could be read: a call the blacklist
\* stopped and a call the added rule stopped are no longer blocked
C38_Witness ==
    /\ Reloaded
    /\ task[1].arg.blacklist_file = NULL /\ task[1].arg.rules_file = NULL
    /\ AddedRules(task[1].seen.rules) # {}
    /\ check_tool_call(task[1].seen.blacklist, task[1].seen.rules, "format_disk", <<>>).blocked
    /\ check_tool_call(task[1].seen.blacklist, task[1].seen.rules, "transfer_funds", <<>>).blocked
    /\ ~check_tool_call(blacklist, rules, "format_disk", <<>>).blocked
    /\ ~check_tool_call(blacklist, rules, "transfer_funds", <<>>).blocked


\* slot 1 is in update_circuit_breaker for a failure reported for n
BreakerOnFailure(n) ==
    /\ task[1].op = "report"
    /\ task[1].pc \in {"breaker", "breaker_write"}
    /\ task[1].arg.service_name = n
    /\ ~task[1].arg.success

\* C39: failed_calls is cumulative: no step lowers it and no step of
\* update_circuit_breaker changes it; a closed breaker is compared with that
\* count, so update_circuit_breaker for a failure reported on a closed
\* breaker whose failed_calls is at or above failure_threshold decides to
\* open it, and the write that follows opens it, also right after a recovery
C39_CumulativeFailuresReopen ==
    [][ \A n \in ServiceNames :
          (RowOf(services, n) # 0 /\ RowOf(services', n) # 0) =>
              LET old == services[RowOf(services, n)]
                  new == services'[RowOf(services', n)]
              IN  /\ new.failed_calls >= old.failed_calls
                  /\ (task[1].op = "report" /\ task[1].pc \in {"breaker", "breaker_write"})
                        => new.failed_calls = old.failed_calls
                  /\ ( /\ BreakerOnFailure(n)
                       /\ task[1].pc = "breaker" /\ task'[1].pc # "breaker"
                       /\ old.circuit_breaker_state = "closed"
                       /\ old.failed_calls >= FailureThreshold )
                        => /\ task'[1].pc = "breaker_write"
                           /\ task'[1].seen[1].state = "open"
                  /\ ( /\ BreakerOnFailure(n)
                       /\ task[1].pc = "breaker_write" /\ task'[1].pc # "breaker_write"
                       /\ task[1].seen[1].state = "open" )
                        => /\ new.circuit_breaker_state = "open"
                           /\ new.failed_calls = old.failed_calls ]_vars

\* a breaker that had opened and recovered is closed with failed_calls above
\* the threshold, and the first failure after a success is about to open it
C39_Witness ==
    \E n \in ServiceNames :
        /\ RowOf(services, n) # 0
        /\ BreakerOnFailure(n)
        /\ task[1].pc = "breaker_write"
        /\ task[1].seen[1].state = "open"
        /\ ServiceRow(n).circuit_breaker_state = "closed"
        /\ ServiceRow(n).failed_calls > FailureThreshold
        /\ applied[n].streak = 1
        /\ applied[n].success >= 2


\* C40: an IVFFlat index that starts empty never takes a vector through
\* add_vector: it stays untrained and empty, every add returns -1 (and so
\* does store_question_embedding, without raising: the query goes on), and
\* every search returns the empty list
C40_UntrainedIndexStaysEmpty ==
    /\ index.index_type = "IVFFlat" /\ index.nlist >= 1
    /\ ~index.is_trained
    /\ index.vectors = <<>> /\ index.id_map = <<>> /\ index.next_vector_id = 0
    /\ \A q \in Queries :
          /\ pc[q] # "failed"
          /\ \A k \in OpsOf(q, "embed") : oplog[q][k].vector_id = -1
          /\ \A i \in 1..Len(results[q]) :
                ~results[q][i].blocked => results[q][i].similar_case_count = 0
    /\ \A user_question \in RetrievedQuestions :
          faiss_search(index, get_embedding(user_question), TopK * 2) = <<>>

\* more embeddings than nlist were submitted, each for a stored row, and the
\* last query found no similar case
C40_Witness ==
    /\ Len(db) > index.nlist
    /\ \A q \in Queries :
          /\ pc[q] = "done"
          /\ OpsOf(q, "embed") # {}
          /\ Len(results[q]) = 1 /\ results[q][1].similar_case_count = 0

===========================================================================
